---- MODULE Spec2Model ----
(***************************************************************************)
(* Model of yaani (src/yaani/yaani.py): the dataset composition engine    *)
(* (map_elt_to_value, merge_sets, decorate_dataset, filtering), the        *)
(* loader (load_data_sets), the renderer (InventoryRenderer), the          *)
(* transform hook (transform_inventory) and the driver (cli).              *)
(*                                                                         *)
(* Each operation of the composition engine is a pure function of its      *)
(* arguments.  A specification draws the arguments in Init (pc = "start")  *)
(* and its single action applies the operation and stores what it returns  *)
(* or raises in ret (pc = "done").  The loader, the renderer and the       *)
(* driver work step by step on loaded (the data_sets of load_data_sets)    *)
(* and inv (the inventory); calls holds, in order, the calls a run has     *)
(* made that a property speaks of.  Where the identity of the records      *)
(* matters (SpecFrame), loaded holds the objects and the datasets as lists *)
(* of references to them.                                                  *)
(***************************************************************************)
EXTENDS Integers, Sequences, FiniteSets, TLC

VARIABLES pc, args, ret, loaded, inv, calls

vars == <<pc, args, ret, loaded, inv, calls>>

----------------------------------------------------------------------------
(* JSON values as Python sees them after pyjq has decoded them.  Every     *)
(* value has the same shape so that any two values can be compared:        *)
(*   t  the type: "null", "bool", "num", "str", "list" or "dict"           *)
(*   n  the number (bool: 1 for True, 0 for False, as in Python)           *)
(*   s  the characters of a string                                         *)
(*   k  the keys of a dict, in order                                       *)
(*   l  the elements of a list, or the values of a dict, in order          *)

Null == [t |-> "null", n |-> 0, s |-> "", k |-> <<>>, l |-> <<>>]

Bool(b) == [t |-> "bool", n |-> IF b THEN 1 ELSE 0, s |-> "", k |-> <<>>, l |-> <<>>]

Num(i) == [t |-> "num", n |-> i, s |-> "", k |-> <<>>, l |-> <<>>]

Str(c) == [t |-> "str", n |-> 0, s |-> c, k |-> <<>>, l |-> <<>>]

List(items) == [t |-> "list", n |-> 0, s |-> "", k |-> <<>>, l |-> items]

Dict(keys, items) == [t |-> "dict", n |-> 0, s |-> "", k |-> keys, l |-> items]

(* A record (one element of a dataset) is a function from its field names  *)
(* to values; {} is the function with the empty domain.                    *)
EmptyRecord == <<>>

Get(elt, f) == IF f \in DOMAIN elt THEN elt[f] ELSE Null

(* Python truthiness, the test of `if indx:`.                              *)
truthy(v) ==
    CASE v.t = "null" -> FALSE
      [] v.t = "bool" -> v.n = 1
      [] v.t = "num"  -> v.n # 0
      [] v.t = "str"  -> v.s # ""
      [] OTHER        -> v.l # <<>>

(* isinstance(indx, list) or isinstance(indx, dict)                        *)
is_container(v) == v.t \in {"list", "dict"}

(* Equality of two values used as keys of a Python dict or members of a    *)
(* Python set: True == 1 and False == 0 (bool is a subclass of int).       *)
py_key(v) == IF v.t = "bool" THEN Num(v.n) ELSE v

py_eq(a, b) == py_key(a) = py_key(b)

----------------------------------------------------------------------------
(* The pivot queries.  The code appends the configured string to `.[1]`    *)
(* and hands the program to jq; the strings below are the configurations   *)
(* the model draws from, with jq's result sequence for each.               *)

Q_FIELD   == ".id"        \* the field, or null when it is missing
Q_ITER    == ".id[]?"     \* every element of a list (value of a dict) field
Q_DEFAULT == ".id // 1"   \* the field, or 1 when it is null or false
Q_BAD     == "."          \* `.[1].` does not compile

Queries == {Q_FIELD, Q_ITER, Q_DEFAULT, Q_BAD}

jq_compiles(query) == query # Q_BAD

jq(query, elt) ==
    LET v == Get(elt, "id") IN
    CASE query = Q_FIELD   -> <<v>>
      [] query = Q_ITER    -> IF is_container(v) THEN v.l ELSE <<>>
      [] query = Q_DEFAULT -> IF v.t = "null" \/ (v.t = "bool" /\ v.n = 0)
                              THEN <<Num(1)>> ELSE <<v>>
      [] OTHER             -> <<>>

(* pyjq.first("[ .[] | [.[0], (.[1]<query>)] ]", list(tmp_dct.items())):    *)
(* one array per element, in list order: the uid of the element followed   *)
(* by every value the query produces for it (jq's array construction       *)
(* collects all the outputs of its body).  The uid of an element is its    *)
(* position in elt_lst.                                                    *)
mpng_of(query, elt_lst) ==
    [i \in 1..Len(elt_lst) |-> <<Num(i)>> \o jq(query, elt_lst[i])]

----------------------------------------------------------------------------
(* Python dicts as sequences of entries in insertion order.  An entry of a *)
(* keyed view holds references (uids) to elements of the dataset.          *)

dict_has(d, key) == \E i \in 1..Len(d) : py_eq(d[i].key, key)

dict_pos(d, key) == CHOOSE i \in 1..Len(d) : py_eq(d[i].key, key)

(* The sequences over S of length at most n.                              *)
SeqsUpTo(S, n) == UNION {[1..m -> S] : m \in 0..n}

(* What an operation hands back: its value, or the exception it raised.    *)
Return(v) == [err |-> "none", val |-> v]

Raise(e) == [err |-> e, val |-> <<>>]

(* An exception whose message names datasets: val holds the names.         *)
RaiseAbout(e, names) == [err |-> e, val |-> names]

(* result_dict.setdefault(indx, []).append(tmp_dct[uid])                   *)
setdefault_append(d, key, uid) ==
    IF dict_has(d, key)
    THEN [d EXCEPT ![dict_pos(d, key)].refs = Append(@, uid)]
    ELSE Append(d, [key |-> key, refs |-> <<uid>>])

(* The two loops of map_elt_to_value over mpng, from tuple i on, with the  *)
(* result_dict built so far.  `for uid, indx in mpng` unpacks each tuple   *)
(* when its turn comes: a tuple that does not have exactly two members     *)
(* raises ValueError, outside the try block of the function.               *)
RECURSIVE index_loop(_, _, _, _)
index_loop(mpng, i, overlap, result_dict) ==
    IF i > Len(mpng) THEN Return(result_dict)
    ELSE IF Len(mpng[i]) # 2 THEN Raise("ValueError")
    ELSE LET uid == mpng[i][1].n
             indx == mpng[i][2]
         IN  IF ~truthy(indx)
             THEN index_loop(mpng, i + 1, overlap, result_dict)
             ELSE IF is_container(indx) THEN Raise("YaaniError")
             ELSE IF overlap
             THEN index_loop(mpng, i + 1, overlap,
                             setdefault_append(result_dict, indx, uid))
             ELSE IF dict_has(result_dict, indx) THEN Raise("YaaniError")
             ELSE index_loop(mpng, i + 1, overlap,
                             Append(result_dict, [key |-> indx, refs |-> <<uid>>]))

map_elt_to_value(query, elt_lst, overlap) ==
    IF ~jq_compiles(query) THEN Raise("YaaniError")
    ELSE index_loop(mpng_of(query, elt_lst), 1, overlap, <<>>)

----------------------------------------------------------------------------
(* The indexer on its own.                                                 *)

MaxElts == 2

IndexVals ==
    { Null, Bool(FALSE), Bool(TRUE), Num(0), Num(1), Num(2), Str(""), Str("a"),
      List(<<>>), List(<<Num(1)>>), List(<<Num(1), Num(1)>>),
      List(<<Num(1), Num(2)>>), Dict(<<>>, <<>>), Dict(<<"a">>, <<Num(1)>>) }

IndexElts == {EmptyRecord} \cup {[id |-> v] : v \in IndexVals}

InitIndex ==
    /\ pc = "start"
    /\ args \in [query : Queries, elt_lst : SeqsUpTo(IndexElts, MaxElts),
                 overlap : BOOLEAN]
    /\ ret = Return(<<>>)
    /\ loaded = <<>>
    /\ inv = <<>>
    /\ calls = <<>>

call_map_elt_to_value ==
    /\ pc = "start"
    /\ ret' = map_elt_to_value(args.query, args.elt_lst, args.overlap)
    /\ pc' = "done"
    /\ UNCHANGED <<args, loaded, inv, calls>>

NextIndex == call_map_elt_to_value

SpecIndex == InitIndex /\ [][NextIndex]_vars

----------------------------------------------------------------------------
(* The merge engine.                                                       *)

(* dict.update: the fields of e replace or extend those of d.              *)
update(d, e) ==
    [f \in DOMAIN d \cup DOMAIN e |-> IF f \in DOMAIN e THEN e[f] ELSE d[f]]

Reverse(seq) == [i \in 1..Len(seq) |-> seq[Len(seq) + 1 - i]]

RECURSIVE update_all(_, _)
update_all(new_elt, elts) ==
    IF elts = <<>> THEN new_elt
    ELSE update_all(update(new_elt, Head(elts)), Tail(elts))

(* merge_elts without the reversal: the last element wins.                 *)
merge_elts_last_wins(elts) == update_all(EmptyRecord, elts)

(* elts.reverse(), then new_elt.update(elt) for each elt.                  *)
merge_elts(elts) == update_all(EmptyRecord, Reverse(elts))

(* The first loop of merge_sets: index the sets in declared order; the     *)
(* first set that cannot be indexed ends the merge.  A YaaniError is       *)
(* raised again as a YaaniError, anything else escapes as it is.           *)
RECURSIVE index_sets(_, _, _)
index_sets(set_lst, i, indxd_lst) ==
    IF i > Len(set_lst) THEN Return(indxd_lst)
    ELSE LET r == map_elt_to_value(set_lst[i].pivot, set_lst[i].data_set, FALSE)
         IN  IF r.err # "none" THEN Raise(r.err)
             ELSE index_sets(set_lst, i + 1,
                             Append(indxd_lst, [name |-> set_lst[i].name,
                                                idx |-> r.val,
                                                data_set |-> set_lst[i].data_set]))

(* setcntnt.get(cmptd, {})                                                 *)
get_elt(indxd, cmptd) ==
    IF dict_has(indxd.idx, cmptd)
    THEN indxd.data_set[indxd.idx[dict_pos(indxd.idx, cmptd)].refs[1]]
    ELSE EmptyRecord

(* The keys common to all the views: an inner join.                        *)
all_idxs_inner(indxd_lst) ==
    {k \in UNION {{py_key(indxd_lst[i].idx[e].key) : e \in 1..Len(indxd_lst[i].idx)} :
                     i \in 1..Len(indxd_lst)} :
        \A i \in 1..Len(indxd_lst) : dict_has(indxd_lst[i].idx, k)}

(* The keys of the first view alone.                                       *)
all_idxs_first(indxd_lst) ==
    {py_key(indxd_lst[1].idx[e].key) : e \in 1..Len(indxd_lst[1].idx)}

(* set(reduce(lambda x, y: x + y, [list(idx.keys()) for ...])): the keys   *)
(* of all the views, equal keys counted once.                              *)
all_idxs(indxd_lst) ==
    UNION {{py_key(indxd_lst[i].idx[e].key) : e \in 1..Len(indxd_lst[i].idx)} :
              i \in 1..Len(indxd_lst)}

(* dict(elts).get(ds, {}): the record of the last set named ds.            *)
dsdct_get(indxd_lst, cmptd, ds) ==
    IF \E i \in 1..Len(indxd_lst) : indxd_lst[i].name = ds
    THEN get_elt(indxd_lst[CHOOSE i \in 1..Len(indxd_lst) :
                              /\ indxd_lst[i].name = ds
                              /\ \A j \in i + 1..Len(indxd_lst) :
                                     indxd_lst[j].name # ds],
                 cmptd)
    ELSE EmptyRecord

(* The priorities ignored.                                                 *)
apply_priorities_ignored(r, keys, indxd_lst, cmptd) == r

(* for k, ds in keys.items(): if k in dsdct.get(ds, {}): r[k] = dsdct[ds][k] *)
apply_priorities(r, keys, indxd_lst, cmptd) ==
    [f \in DOMAIN r \cup {k \in DOMAIN keys :
                             k \in DOMAIN dsdct_get(indxd_lst, cmptd, keys[k])} |->
        IF f \in DOMAIN keys /\ f \in DOMAIN dsdct_get(indxd_lst, cmptd, keys[f])
        THEN dsdct_get(indxd_lst, cmptd, keys[f])[f]
        ELSE r[f]]

(* The record merge_sets builds for the key cmptd, {} when it appends none. *)
merged_at(indxd_lst, keys, cmptd) ==
    LET r == merge_elts([i \in 1..Len(indxd_lst) |-> get_elt(indxd_lst[i], cmptd)])
    IN  IF r = EmptyRecord THEN EmptyRecord
        ELSE apply_priorities(r, keys, indxd_lst, cmptd)

RECURSIVE merge_loop(_, _, _, _)
merge_loop(indxd_lst, keys, idxs, lst) ==
    IF idxs = <<>> THEN lst
    ELSE LET r == merged_at(indxd_lst, keys, Head(idxs))
         IN  merge_loop(indxd_lst, keys, Tail(idxs),
                        IF r = EmptyRecord THEN lst ELSE Append(lst, r))

Orderings(S) ==
    {o \in [1..Cardinality(S) -> S] : \A i, j \in 1..Cardinality(S) : o[i] = o[j] => i = j}

(* merge_sets: what it may hand back.  list(set(...)) fixes no order of    *)
(* the keys, so there is one outcome for each order.                       *)
merge_sets(set_lst, keys) ==
    LET indxd == index_sets(set_lst, 1, <<>>)
    IN  IF indxd.err # "none" THEN {Raise(indxd.err)}
        ELSE {Return(merge_loop(indxd.val, keys, idxs, <<>>)) :
                 idxs \in Orderings(all_idxs(indxd.val))}

----------------------------------------------------------------------------
(* The merge engine on its own: two or three declared sets.                *)

MaxMergeElts == 3

SetNames == <<"s1", "s2", "s3">>

MergePivots == {Q_FIELD, Q_DEFAULT}

MergeElts ==
    { EmptyRecord,
      [id |-> Num(1), x |-> Str("a"), y |-> Str("a")],
      [id |-> Num(1), x |-> Str("b"), y |-> Str("b")],
      [id |-> Num(2), x |-> Str("a")] }

(* The priorities: field name -> set name.                                 *)
Priorities ==
    { <<>>, [x |-> "s2"], [x |-> "s3"], [x |-> "s1", y |-> "s2"] }

(* The lists of n datasets over E that hold at most m elements between     *)
(* them.                                                                   *)
RECURSIVE DataSetLists(_, _, _)
DataSetLists(E, n, m) ==
    IF n = 0 THEN {<<>>}
    ELSE UNION {{<<d>> \o rest : d \in [1..h -> E],
                                 rest \in DataSetLists(E, n - 1, m - h)} :
                   h \in 0..m}

InitMerge ==
    /\ pc = "start"
    /\ \E n \in 2..Len(SetNames) :
         \E data \in DataSetLists(MergeElts, n, MaxMergeElts), pivots \in [1..n -> MergePivots] :
           \E keys \in Priorities :
             args = [set_lst |-> [i \in 1..n |-> [name |-> SetNames[i],
                                                  pivot |-> pivots[i],
                                                  data_set |-> data[i]]],
                     keys |-> keys]
    /\ ret = Return(<<>>)
    /\ loaded = <<>>
    /\ inv = <<>>
    /\ calls = <<>>

call_merge_sets ==
    /\ pc = "start"
    /\ ret' \in merge_sets(args.set_lst, args.keys)
    /\ pc' = "done"
    /\ UNCHANGED <<args, loaded, inv, calls>>

NextMerge == call_merge_sets

SpecMerge == InitMerge /\ [][NextMerge]_vars

----------------------------------------------------------------------------
(* The decoration engine.                                                  *)

(* decorate_element that never replaces a field the record already has.    *)
RECURSIVE decorate_element_keep(_, _)
decorate_element_keep(elt, data) ==
    IF data = <<>> THEN elt
    ELSE decorate_element_keep(update((Head(data).anchor :> Head(data).value), elt),
                               Tail(data))

(* new_elt.update(elt), then new_elt[anchor] = value for each pair of data. *)
RECURSIVE decorate_element(_, _)
decorate_element(elt, data) ==
    IF data = <<>> THEN elt
    ELSE decorate_element(update(elt, (Head(data).anchor :> Head(data).value)),
                          Tail(data))

(* The comprehension that indexes the decorators, in overlap mode, in      *)
(* declared order; it stops at the first decorator that fails.             *)
RECURSIVE index_decorators(_, _, _, _)
index_decorators(decorators, data_sets, i, idx_add_set_lst) ==
    IF i > Len(decorators) THEN Return(idx_add_set_lst)
    ELSE IF decorators[i].name \notin DOMAIN data_sets
         THEN RaiseAbout("YaaniError", <<decorators[i].name>>)
    ELSE LET r == map_elt_to_value(decorators[i].pivot,
                                   data_sets[decorators[i].name], TRUE)
         IN  IF r.err # "none" THEN Raise(r.err)
             ELSE index_decorators(decorators, data_sets, i + 1,
                      Append(idx_add_set_lst,
                             [anchor |-> decorators[i].anchor,
                              ds |-> r.val,
                              data_set |-> data_sets[decorators[i].name]]))

(* ds.get(idx): the elements of the decorator at the key, as a list.       *)
matches(add_set, idx) ==
    LET refs == add_set.ds[dict_pos(add_set.ds, idx)].refs
    IN  List([j \in 1..Len(refs) |-> add_set.data_set[refs[j]]])

(* [(anchor, ds.get(idx)) for anchor, ds in idx_add_set_lst                *)
(*                        if idx is not None and ds.get(idx)]              *)
RECURSIVE sublst_of(_, _)
sublst_of(idx_add_set_lst, idx) ==
    IF idx_add_set_lst = <<>> THEN <<>>
    ELSE LET add_set == Head(idx_add_set_lst)
             rest == sublst_of(Tail(idx_add_set_lst), idx)
         IN  IF idx.t # "null" /\ dict_has(add_set.ds, idx)
             THEN <<[anchor |-> add_set.anchor, value |-> matches(add_set, idx)]>>
                      \o rest
             ELSE rest

(* The loop over idx_main_set.items(): one decorated record per element of *)
(* each entry (an exclusive entry holds one element).                      *)
RECURSIVE decorate_loop(_, _, _, _)
decorate_loop(idx_main_set, main_set, idx_add_set_lst, e) ==
    IF e > Len(idx_main_set) THEN <<>>
    ELSE LET sublst == sublst_of(idx_add_set_lst, idx_main_set[e].key)
             refs == idx_main_set[e].refs
         IN  [j \in 1..Len(refs) |-> decorate_element(main_set[refs[j]], sublst)]
                 \o decorate_loop(idx_main_set, main_set, idx_add_set_lst, e + 1)

(* config["main"].get("exclusive", True)                                   *)
exclusive_of(config) ==
    IF "exclusive" \in DOMAIN config.main THEN config.main.exclusive ELSE TRUE

decorate_dataset(config, data_sets) ==
    IF config.main.name \notin DOMAIN data_sets
    THEN RaiseAbout("YaaniError", <<config.main.name>>)
    ELSE LET main_set == data_sets[config.main.name]
             idx_main_set == map_elt_to_value(config.main.pivot, main_set,
                                              ~exclusive_of(config))
         IN  IF idx_main_set.err = "YaaniError"
             THEN RaiseAbout("YaaniError", <<config.main.name>>)
             ELSE IF idx_main_set.err # "none" THEN Raise(idx_main_set.err)
             ELSE LET idx_add_set_lst ==
                          index_decorators(config.decorators, data_sets, 1, <<>>)
                  IN  IF idx_add_set_lst.err # "none" THEN idx_add_set_lst
                      ELSE Return(decorate_loop(idx_main_set.val, main_set,
                                                idx_add_set_lst.val, 1))

----------------------------------------------------------------------------
(* The decoration engine on its own: a main set "m" and the decorating     *)
(* sets "d1" and "d2".                                                     *)

MaxDecoElts == 3

DecoElts ==
    { [id |-> Num(1), x |-> Str("a")],
      [id |-> Num(1), x |-> Str("b")],
      [id |-> Num(2), x |-> Str("a")],
      [id |-> Num(0), x |-> Str("a")] }

Anchors == {"a", "x"}

DecoratorCfgs == [name : {"d1", "d2"}, pivot : {Q_FIELD}, anchor : Anchors]

MainCfgs ==
    {[name |-> "m", pivot |-> Q_FIELD]}
        \cup [name : {"m"}, pivot : {Q_FIELD}, exclusive : BOOLEAN]

InitDecorate ==
    /\ pc = "start"
    /\ \E data \in DataSetLists(DecoElts, 3, MaxDecoElts) :
         \E main \in MainCfgs, decorators \in SeqsUpTo(DecoratorCfgs, 2) \ {<<>>} :
           args = [config |-> [main |-> main, decorators |-> decorators],
                   data_sets |-> [m |-> data[1], d1 |-> data[2], d2 |-> data[3]]]
    /\ ret = Return(<<>>)
    /\ loaded = <<>>
    /\ inv = <<>>
    /\ calls = <<>>

call_decorate_dataset ==
    /\ pc = "start"
    /\ ret' = decorate_dataset(args.config, args.data_sets)
    /\ pc' = "done"
    /\ UNCHANGED <<args, loaded, inv, calls>>

NextDecorate == call_decorate_dataset

SpecDecorate == InitDecorate /\ [][NextDecorate]_vars

----------------------------------------------------------------------------
(* Properties of the indexer, read on the states where the call is over.   *)

Done == pc = "done"

(* The queries that produce exactly one value for every element, so that   *)
(* "the computed key" of an element is that value.                         *)
SingleValued(query) == query \in {Q_FIELD, Q_DEFAULT}

KeyAt(i) == jq(args.query, args.elt_lst[i])[1]

Elts == 1..Len(args.elt_lst)

(* Where element i stands in a keyed view: the pairs (entry, rank).        *)
Places(view, i) ==
    {p \in UNION {{<<e, j>> : j \in 1..Len(view[e].refs)} : e \in 1..Len(view)} :
        view[p[1]].refs[p[2]] = i}

InView(view, i) == Places(view, i) # {}

(* C4: map_elt_to_value leaves an element out of the keyed view exactly   *)
(* when its computed key is null; an element whose key is a non-null       *)
(* scalar (0, "" and false included) is in the view, in either mode.       *)
C4_DroppedIffNull ==
    (Done /\ SingleValued(args.query) /\ ret.err = "none") =>
        \A i \in Elts :
            ~is_container(KeyAt(i)) =>
                (InView(ret.val, i) <=> KeyAt(i).t # "null")

(* Two elements compute the same non-null key.                             *)
SameKeyTwice ==
    \E i, j \in Elts :
        /\ i < j
        /\ KeyAt(i).t # "null"
        /\ KeyAt(i) = KeyAt(j)

(* C5: in exclusive mode indexing raises YaaniError whenever two elements *)
(* compute the same non-null key, and otherwise returns a view whose every *)
(* key maps to exactly one element.                                        *)
C5_ExclusiveRejectsDuplicates ==
    (Done /\ SingleValued(args.query) /\ ~args.overlap
          /\ \A i \in Elts : ~is_container(KeyAt(i))) =>
        IF SameKeyTwice
        THEN ret.err = "YaaniError"
        ELSE /\ ret.err = "none"
             /\ \A e \in 1..Len(ret.val) : Len(ret.val[e].refs) = 1

(* C6: in overlap mode equal keys never make indexing fail; every element *)
(* with a non-null scalar key is in the view exactly once, in the list of  *)
(* its own key, and every list keeps the dataset's order.                  *)
C6_OverlapKeepsEveryElement ==
    (Done /\ SingleValued(args.query) /\ args.overlap
          /\ \A i \in Elts : ~is_container(KeyAt(i))) =>
        /\ ret.err = "none"
        /\ \A i \in Elts :
              KeyAt(i).t # "null" =>
                  /\ Cardinality(Places(ret.val, i)) = 1
                  /\ \A p \in Places(ret.val, i) : ret.val[p[1]].key = KeyAt(i)
        /\ \A e \in 1..Len(ret.val) :
              \A a, b \in 1..Len(ret.val[e].refs) :
                  a < b => ret.val[e].refs[a] < ret.val[e].refs[b]

(* C7: a dataset with an element whose computed key is a list or a mapping *)
(* of any size, empty ones included, makes map_elt_to_value raise          *)
(* YaaniError in exclusive and in overlap mode.                            *)
C7_ContainerKeyAlwaysFails ==
    (Done /\ SingleValued(args.query)
          /\ \E i \in Elts : is_container(KeyAt(i))) =>
        ret.err = "YaaniError"

(* The values the pivot query produces for element i.                      *)
Produced(i) == jq(args.query, args.elt_lst[i])

FirstsCollide ==
    \E i, j \in Elts :
        /\ i < j
        /\ Produced(i) # <<>>
        /\ Produced(j) # <<>>
        /\ py_eq(Produced(i)[1], Produced(j)[1])

(* C8: the key of an element is the first value the pivot query produces  *)
(* for it, the element being dropped when the query produces none; a query *)
(* that produces zero or several values for an element does not make       *)
(* indexing fail.  Read on the inputs whose produced values are all truthy *)
(* scalars and, in exclusive mode, whose first values are pairwise         *)
(* different, so that nothing but the number of values is in play.         *)
C8_KeyIsFirstValue ==
    (Done /\ jq_compiles(args.query)
          /\ \A i \in Elts : \A j \in 1..Len(Produced(i)) :
                 truthy(Produced(i)[j]) /\ ~is_container(Produced(i)[j])
          /\ (args.overlap \/ ~FirstsCollide)) =>
        /\ ret.err = "none"
        /\ \A i \in Elts :
              IF Produced(i) = <<>>
              THEN ~InView(ret.val, i)
              ELSE /\ Cardinality(Places(ret.val, i)) = 1
                   /\ \A p \in Places(ret.val, i) :
                          py_eq(ret.val[p[1]].key, Produced(i)[1])

----------------------------------------------------------------------------
(* Properties of the merge engine.  They are stated from the exclusive     *)
(* keyed views of the declared sets, not from the way merge_sets walks     *)
(* them.                                                                   *)

Sets == 1..Len(args.set_lst)

Views ==
    [i \in Sets |->
        map_elt_to_value(args.set_lst[i].pivot, args.set_lst[i].data_set, FALSE)]

AllIndexed(V) == \A i \in Sets : V[i].err = "none"

(* The views with their references followed: for each set, the record it   *)
(* holds at each key of its view.                                          *)
Records(V) ==
    [i \in Sets |->
        [k \in {py_key(V[i].val[e].key) : e \in 1..Len(V[i].val)} |->
            args.set_lst[i].data_set[
                V[i].val[CHOOSE e \in 1..Len(V[i].val) : py_key(V[i].val[e].key) = k]
                    .refs[1]]]]

UnionKeys(R) == UNION {DOMAIN R[i] : i \in Sets}

(* The sets that have field f in their record at key k.                    *)
Holders(R, k, f) == {i \in Sets : k \in DOMAIN R[i] /\ f \in DOMAIN R[i][k]}

FieldsAt(R, k) == UNION {DOMAIN R[i][k] : i \in {j \in Sets : k \in DOMAIN R[j]}}

Earliest(S) == CHOOSE i \in S : \A j \in S : i <= j

(* The first-declared set that has the field gives its value.              *)
FirstWins(R, k) ==
    [f \in FieldsAt(R, k) |-> R[Earliest(Holders(R, k, f))][k][f]]

(* The set a priority entry names, when the entry applies at key k.        *)
NamedHolders(R, k, f) ==
    IF f \in DOMAIN args.keys
    THEN {i \in Holders(R, k, f) : args.set_lst[i].name = args.keys[f]}
    ELSE {}

WithPriorities(R, k) ==
    [f \in FieldsAt(R, k) |->
        IF NamedHolders(R, k, f) # {}
        THEN R[Earliest(NamedHolders(R, k, f))][k][f]
        ELSE FirstWins(R, k)[f]]

(* The keys that get a record: those whose merged record is not empty.     *)
OutputKeys(R) == {k \in UnionKeys(R) : FieldsAt(R, k) # {}}

(* lst holds exactly one record for each key of K, the record expected[k]. *)
OnePerKey(lst, K, expected) ==
    /\ Len(lst) = Cardinality(K)
    /\ \E b \in Orderings(K) : \A p \in 1..Len(lst) : lst[p] = expected[b[p]]

(* C1: when every set indexes, merge_sets returns exactly one record for  *)
(* every key of the union of the views' keys whose merged record is not    *)
(* empty, and no record for any other key: the records can be matched one  *)
(* to one with those keys, each having the fields its key's records have.  *)
C1_OuterJoin ==
    Done =>
        \A V \in {Views} :
            AllIndexed(V) =>
                \A R \in {Records(V)} :
                    \A K \in {OutputKeys(R)} :
                        /\ ret.err = "none"
                        /\ OnePerKey([p \in 1..Len(ret.val) |-> DOMAIN ret.val[p]],
                                     K, [k \in K |-> FieldsAt(R, k)])

(* A key that one of the sets lacks gets a record, and a key whose records *)
(* are all empty gets none.                                                *)
C1_Witness ==
    /\ Done
    /\ ret.err = "none"
    /\ Len(ret.val) >= 1
    /\ \E V \in {Views} :
          /\ AllIndexed(V)
          /\ \E R \in {Records(V)} :
                /\ \E k \in OutputKeys(R) : \E i \in Sets : k \notin DOMAIN R[i]
                /\ \E k \in UnionKeys(R) : k \notin OutputKeys(R)

(* C2: with no priorities, a field that several sets hold at a key has    *)
(* the value of the earliest-declared of them in the merged record; and    *)
(* merge_elts gives each field the value of the lowest-index element that  *)
(* has it.                                                                 *)
C2_FirstDeclaredWins ==
    (Done /\ args.keys = <<>>) =>
        \A V \in {Views} :
            AllIndexed(V) =>
                \A R \in {Records(V)} :
                    \A K \in {OutputKeys(R)} :
                        /\ ret.err = "none"
                        /\ OnePerKey(ret.val, K, [k \in K |-> FirstWins(R, k)])
                        /\ \A k \in UnionKeys(R) :
                              merge_elts([i \in Sets |->
                                            IF k \in DOMAIN R[i] THEN R[i][k]
                                            ELSE EmptyRecord])
                                  = FirstWins(R, k)

(* Three sets hold the field at the key and the first two disagree.        *)
C2_Witness ==
    /\ Done
    /\ args.keys = <<>>
    /\ ret.err = "none"
    /\ \E V \in {Views} :
          /\ AllIndexed(V)
          /\ \E R \in {Records(V)} :
                \E k \in OutputKeys(R) :
                    /\ Holders(R, k, "x") = {1, 2, 3}
                    /\ R[1][k]["x"] # R[2][k]["x"]
                    /\ \E p \in 1..Len(ret.val) : ret.val[p] = FirstWins(R, k)

(* C3: a priority entry field -> set name gives the field the value of    *)
(* the named set's record at the key when that record has the field; every *)
(* other field keeps its first-declared-wins value, and an entry whose     *)
(* field the named set's record lacks changes nothing.                     *)
C3_PriorityOverrides ==
    Done =>
        \A V \in {Views} :
            AllIndexed(V) =>
                \A R \in {Records(V)} :
                    \A K \in {OutputKeys(R)} :
                        /\ ret.err = "none"
                        /\ OnePerKey(ret.val, K, [k \in K |-> WithPriorities(R, k)])

(* An entry that applies and changes the value, at a key where another     *)
(* field keeps its first-declared-wins value.                              *)
C3_Witness ==
    /\ Done
    /\ ret.err = "none"
    /\ \E V \in {Views} :
          /\ AllIndexed(V)
          /\ \E R \in {Records(V)} :
                \E k \in OutputKeys(R) :
                    /\ NamedHolders(R, k, "x") # {}
                    /\ WithPriorities(R, k)["x"] # FirstWins(R, k)["x"]
                    /\ "id" \in FieldsAt(R, k)
                    /\ \E p \in 1..Len(ret.val) : ret.val[p] = WithPriorities(R, k)

----------------------------------------------------------------------------
(* Properties of the decoration engine, stated from the main keyed view    *)
(* and from the decorators' elements.                                      *)

MainSet == args.data_sets[args.config.main.name]

MainView ==
    map_elt_to_value(args.config.main.pivot, MainSet, ~exclusive_of(args.config))

Decorators == 1..Len(args.config.decorators)

(* The matches of decorator d at key k: its elements whose key is k, in    *)
(* the order of its dataset.                                               *)
MatchesAt(d, k) ==
    LET cfg == args.config.decorators[d]
        HasKey(elt) == py_eq(jq(cfg.pivot, elt)[1], k)
    IN  SelectSeq(args.data_sets[cfg.name], HasKey)

(* The decorators that have a match at k with the anchor f.                *)
Anchoring(k, f) ==
    {d \in Decorators : args.config.decorators[d].anchor = f /\ MatchesAt(d, k) # <<>>}

MatchedAnchors(k) == {f \in Anchors : Anchoring(k, f) # {}}

Latest(S) == CHOOSE d \in S : \A c \in S : c <= d

(* C9 as it was claimed: with main.exclusive true there is one record per *)
(* key of the main view; it has the main record's fields plus, for each    *)
(* decorator with a match at the key, the field named by that decorator's  *)
(* anchor holding the list of its matches; a decorator with no match adds  *)
(* no field.                                                               *)
C9_EveryDecoratorAnchored ==
    (Done /\ exclusive_of(args.config) /\ ret.err = "none") =>
        \A MV \in {MainView.val} :
            /\ Len(ret.val) = Len(MV)
            /\ \A e \in 1..Len(MV) :
                  \A main \in {MainSet[MV[e].refs[1]]} :
                      /\ DOMAIN ret.val[e] = DOMAIN main \cup MatchedAnchors(MV[e].key)
                      /\ \A d \in Decorators :
                            MatchesAt(d, MV[e].key) # <<>> =>
                                ret.val[e][args.config.decorators[d].anchor]
                                    = List(MatchesAt(d, MV[e].key))
                      /\ \A f \in DOMAIN main \ MatchedAnchors(MV[e].key) :
                            ret.val[e][f] = main[f]

(* C9, amended: with main.exclusive true there is one record per key of   *)
(* the main view; its fields are the main record's fields and the anchors  *)
(* of the decorators that have a match at the key; such an anchor holds    *)
(* the list of matches of the last-declared decorator with that anchor     *)
(* that has a match, every other field has the main record's value; a      *)
(* decorator with no match adds no field.                                  *)
C9_LastDecoratorAnchored ==
    (Done /\ exclusive_of(args.config) /\ ret.err = "none") =>
        \A MV \in {MainView.val} :
            /\ Len(ret.val) = Len(MV)
            /\ \A e \in 1..Len(MV) :
                  \A main \in {MainSet[MV[e].refs[1]]} :
                      ret.val[e] =
                          [f \in DOMAIN main \cup MatchedAnchors(MV[e].key) |->
                              IF f \in MatchedAnchors(MV[e].key)
                              THEN List(MatchesAt(Latest(Anchoring(MV[e].key, f)),
                                                  MV[e].key))
                              ELSE main[f]]

(* Two decorators with the same anchor have different matches at a key of  *)
(* the main view, and the record of that key carries those of the second.  *)
C9_Witness ==
    /\ Done
    /\ exclusive_of(args.config)
    /\ ret.err = "none"
    /\ Len(args.config.decorators) = 2
    /\ \E e \in 1..Len(ret.val) :
          \A k \in {MainView.val[e].key} :
              /\ Anchoring(k, "a") = {1, 2}
              /\ MatchesAt(1, k) # MatchesAt(2, k)
              /\ ret.val[e]["a"] = List(MatchesAt(2, k))
              /\ ret.val[e]["x"] = MainSet[MainView.val[e].refs[1]]["x"]

(* The elements a view refers to, in the order of the view, each with the *)
(* key it stands under.                                                    *)
RECURSIVE AllRefs(_)
AllRefs(view) ==
    IF view = <<>> THEN <<>>
    ELSE [j \in 1..Len(Head(view).refs) |-> [key |-> Head(view).key,
                                            ref |-> Head(view).refs[j]]]
             \o AllRefs(Tail(view))

(* C10: with main.exclusive false there is one output record per element  *)
(* of the main set that has a non-null key, and the records derived from   *)
(* elements that share a key carry the same anchor fields, those of the    *)
(* key's decorator matches.                                                *)
C10_OnePerMainElement ==
    (Done /\ ~exclusive_of(args.config) /\ ret.err = "none") =>
        /\ Len(ret.val) =
               Cardinality({i \in 1..Len(MainSet) :
                               jq(args.config.main.pivot, MainSet[i])[1].t # "null"})
        /\ \A from \in {AllRefs(MainView.val)} :
              \A p, q \in 1..Len(ret.val) :
                  from[p].key = from[q].key =>
                      \A f \in MatchedAnchors(from[p].key) :
                          ret.val[p][f] = ret.val[q][f]

----------------------------------------------------------------------------
(* The filter stage.                                                       *)

(* What jq hands back to Python for a query on a whole dataset: a list of  *)
(* records, one record, or None.                                           *)
JList(records) == [t |-> "list", l |-> records]

JRec(record) == [t |-> "dict", l |-> <<record>>]

JNone == [t |-> "null", l |-> <<>>]

F_ALL  == "."                            \* the dataset itself
F_MAP  == "map(select(.x == \"a\"))"     \* the list of the selected records
F_EACH == ".[] | select(.x == \"a\")"    \* the selected records, one by one
F_BAD  == ".["                           \* does not compile

Filters == {F_ALL, F_MAP, F_EACH, F_BAD}

(* The predicate of F_MAP and F_EACH.                                      *)
x_is_a(elt) == Get(elt, "x") = Str("a")

(* The results of a filter on a dataset, in the order jq emits them.       *)
jq_filter(query, ds) ==
    CASE query = F_ALL  -> <<JList(ds)>>
      [] query = F_MAP  -> <<JList(SelectSeq(ds, x_is_a))>>
      [] query = F_EACH -> [i \in 1..Len(SelectSeq(ds, x_is_a)) |->
                               JRec(SelectSeq(ds, x_is_a)[i])]
      [] OTHER          -> <<>>

(* The last result instead of the first.                                   *)
pyjq_last(outputs) == IF outputs = <<>> THEN JNone ELSE outputs[Len(outputs)]

(* pyjq.first: the first result, None when there is none.                  *)
pyjq_first(outputs) == IF outputs = <<>> THEN JNone ELSE outputs[1]

create_dataset_from_filtering(ds_args, data_sets) ==
    IF ds_args.name \notin DOMAIN data_sets
    THEN RaiseAbout("YaaniError", <<ds_args.name>>)
    ELSE IF ds_args.filter = F_BAD THEN Raise("YaaniError")
    ELSE Return(pyjq_first(jq_filter(ds_args.filter, data_sets[ds_args.name])))

----------------------------------------------------------------------------
(* The filter stage on its own: the dataset "setA", and a definition that  *)
(* names it or the unknown "setB".                                         *)

MaxFilterElts == 3

FilterElts ==
    { [id |-> Num(1), x |-> Str("a")],
      [id |-> Num(2), x |-> Str("a")],
      [id |-> Num(3), x |-> Str("b")] }

InitFilter ==
    /\ pc = "start"
    /\ args \in [args : [name : {"setA", "setB"}, filter : Filters],
                 data_sets : [setA : SeqsUpTo(FilterElts, MaxFilterElts)]]
    /\ ret = Return(<<>>)
    /\ loaded = <<>>
    /\ inv = <<>>
    /\ calls = <<>>

call_create_dataset_from_filtering ==
    /\ pc = "start"
    /\ ret' = create_dataset_from_filtering(args.args, args.data_sets)
    /\ pc' = "done"
    /\ UNCHANGED <<args, loaded, inv, calls>>

NextFilter == call_create_dataset_from_filtering

SpecFilter == InitFilter /\ [][NextFilter]_vars

----------------------------------------------------------------------------
(* Properties of the filter stage.                                         *)

(* The records of the named dataset that the filter selects, in dataset    *)
(* order.                                                                  *)
Selected ==
    IF args.args.filter = F_ALL THEN args.data_sets[args.args.name]
    ELSE SelectSeq(args.data_sets[args.args.name], x_is_a)

Filtered ==
    /\ Done
    /\ args.args.name \in DOMAIN args.data_sets
    /\ args.args.filter # F_BAD

(* C11 as it was claimed: create_dataset_from_filtering returns every     *)
(* record of the named dataset that the query selects, in dataset order,   *)
(* whether it selects zero, one or several records.                        *)
C11_EverySelectedRecord ==
    Filtered => ret = Return(JList(Selected))

(* C11, amended: create_dataset_from_filtering returns the first result   *)
(* of the query applied once to the whole dataset, None when the query has *)
(* no result.  For a query whose single result is the list of the selected *)
(* records that is every selected record, in dataset order; for a query    *)
(* that emits the selected records one by one it is the first selected     *)
(* record alone, not a list, and None when nothing is selected.            *)
C11_FirstResultOnly ==
    Filtered =>
        IF args.args.filter \in {F_ALL, F_MAP}
        THEN ret = Return(JList(Selected))
        ELSE IF Selected = <<>> THEN ret = Return(JNone)
        ELSE ret = Return(JRec(Selected[1]))

(* A query that emits two selected records one by one: the first alone is  *)
(* returned.                                                               *)
C11_Witness ==
    /\ Filtered
    /\ args.args.filter = F_EACH
    /\ Len(Selected) >= 2
    /\ Selected[1] # Selected[2]
    /\ ret = Return(JRec(Selected[1]))

----------------------------------------------------------------------------
(* The loader: load_data_sets and the strategies it dispatches to.         *)

(* sources[src_name].extract(...): the records the source hands over.      *)
create_dataset_from_source(config, sources) ==
    IF config.name \notin DOMAIN sources
    THEN RaiseAbout("YaaniError", <<config.name>>)
    ELSE Return(sources[config.name])

(* config.get("keys", {})                                                  *)
keys_of(config) == IF "keys" \in DOMAIN config THEN config.keys ELSE <<>>

(* The comprehension looks every set up before anything is indexed; the    *)
(* first name that is not a key of data_sets raises KeyError.  The         *)
(* outcomes are those of merge_sets, one for each order of the keys.       *)
create_dataset_from_merge(config, data_sets) ==
    LET sets == config.sets
        missing == {i \in 1..Len(sets) : sets[i].name \notin DOMAIN data_sets}
    IN  IF missing # {}
        THEN {RaiseAbout("YaaniError", <<sets[Earliest(missing)].name>>)}
        ELSE merge_sets([i \in 1..Len(sets) |->
                            [name |-> sets[i].name, pivot |-> sets[i].pivot,
                             data_set |-> data_sets[sets[i].name]]],
                        keys_of(config))

(* What the filter hands back becomes the dataset as it is; the filters    *)
(* the loader is given here build lists.                                   *)
as_data_set(r) == IF r.err # "none" THEN r ELSE Return(r.val.l)

(* The outcomes of create_set.                                             *)
create_set(strategy, ds_args, sources, data_sets) ==
    CASE strategy = "source" -> {create_dataset_from_source(ds_args, sources)}
      [] strategy = "filtering" ->
             {as_data_set(create_dataset_from_filtering(ds_args, data_sets))}
      [] strategy = "merge" -> create_dataset_from_merge(ds_args, data_sets)
      [] strategy = "decoration" -> {decorate_dataset(ds_args, data_sets)}
      [] OTHER -> {Raise("YaaniError")}

(* The names of sets and sources the arguments of a definition hold.       *)
names_in(ds_args) ==
    (IF "name" \in DOMAIN ds_args THEN <<ds_args.name>> ELSE <<>>)
    \o (IF "sets" \in DOMAIN ds_args
        THEN [i \in 1..Len(ds_args.sets) |-> ds_args.sets[i].name] ELSE <<>>)
    \o (IF "main" \in DOMAIN ds_args THEN <<ds_args.main.name>> ELSE <<>>)
    \o (IF "decorators" \in DOMAIN ds_args
        THEN [i \in 1..Len(ds_args.decorators) |-> ds_args.decorators[i].name]
        ELSE <<>>)

(* The required and the allowed properties of the arguments of a strategy. *)
args_shape(strategy) ==
    CASE strategy = "file_source" ->
             [required |-> {"name", "filter"}, allowed |-> {"name", "filter"}]
      [] strategy = "filtering" ->
             [required |-> {"name", "filter"}, allowed |-> {"name", "filter"}]
      [] strategy = "merge" ->
             [required |-> {"sets"}, allowed |-> {"sets", "keys"}]
      [] strategy = "decoration" ->
             [required |-> {"main", "decorators"},
              allowed |-> {"main", "decorators"}]

(* validate_data_set_args: a ValidationError is raised again as a          *)
(* YaaniError whose message shows the instance that failed, here the       *)
(* arguments, and the reason.                                              *)
validate_data_set_args(strategy, ds_args) ==
    IF /\ args_shape(strategy).required \subseteq DOMAIN ds_args
       /\ DOMAIN ds_args \subseteq args_shape(strategy).allowed
    THEN Return(<<>>)
    ELSE RaiseAbout("YaaniError", names_in(ds_args))

(* The strategy whose schema the arguments are validated with: for a       *)
(* definition made from a source, the one of the class of the source.  The *)
(* sources here are FileSource objects.                                    *)
strategy_of(ds_def, sources) ==
    IF ds_def.from # "source" THEN Return(ds_def.from)
    ELSE IF "name" \notin DOMAIN ds_def.args
    THEN RaiseAbout("YaaniError", <<"name", ds_def.name>>)
    ELSE IF ds_def.args.name \notin DOMAIN sources
    THEN RaiseAbout("YaaniError", <<ds_def.args.name>>)
    ELSE Return("file_source")

(* One turn of "Instantiate every data sets": its outcomes.  A YaaniError  *)
(* of create_set is raised again with the name of the set being created    *)
(* put before its message; any other exception escapes as it is.           *)
create_turn(ds_def, sources, data_sets) ==
    IF strategy_of(ds_def, sources).err # "none"
    THEN {strategy_of(ds_def, sources)}
    ELSE IF validate_data_set_args(strategy_of(ds_def, sources).val,
                                   ds_def.args).err # "none"
    THEN {validate_data_set_args(strategy_of(ds_def, sources).val, ds_def.args)}
    ELSE {IF r.err = "YaaniError"
          THEN RaiseAbout("YaaniError", <<ds_def.name>> \o r.val)
          ELSE r :
             r \in create_set(ds_def.from, ds_def.args, sources, data_sets)}

(* The turn reaches create_set and there calls extract on its source.      *)
extracts(ds_def, sources) ==
    /\ ds_def.from = "source"
    /\ strategy_of(ds_def, sources).err = "none"
    /\ validate_data_set_args("file_source", ds_def.args).err = "none"

(* The first loop of load_data_sets finding nothing.                       *)
seen_twice_never(configuration) == {}

(* The first loop of load_data_sets: the positions of the definitions      *)
(* whose name an earlier definition has.                                   *)
seen_twice(configuration) ==
    {p \in 1..Len(configuration) :
        \E j \in 1..p - 1 : configuration[j].name = configuration[p].name}

(* The second loop creates one set per turn and the names are pairwise     *)
(* different, so the turn is the number of sets created so far plus one.   *)
ds_pos == Cardinality(DOMAIN loaded) + 1

(* data_sets[ds_name] = data_set                                           *)
dict_set(d, key, value) ==
    [n \in DOMAIN d \cup {key} |-> IF n = key THEN value ELSE d[n]]

----------------------------------------------------------------------------
(* The loader at work: one source, "src", and up to three definitions; a   *)
(* definition may name a source that is not declared, "nosrc", or have     *)
(* arguments without the filter its strategy requires.                     *)

MaxLoadElts == 2

LoadElts == { [id |-> Num(1), x |-> Str("a")], [id |-> Num(1), x |-> Str("b")] }

(* The names a definition may have at each position.                       *)
NamesAt == << {"a"}, {"b", "a"}, {"c"} >>

DefBodies ==
    {[from |-> "source", args |-> [name |-> n, filter |-> ".[]"]] :
        n \in {"src", "nosrc"}}
    \cup {[from |-> "filtering", args |-> [name |-> "a"]]}
    \cup {[from |-> "filtering", args |-> [name |-> n, filter |-> F_MAP]] :
             n \in {"a", "b", "c"}}
    \cup {[from |-> "merge",
           args |-> [sets |-> <<[name |-> "a", pivot |-> Q_FIELD],
                                [name |-> n, pivot |-> Q_FIELD]>>]] :
             n \in {"b", "c"}}
    \cup {[from |-> "decoration",
           args |-> [main |-> [name |-> m, pivot |-> q],
                     decorators |-> <<[name |-> d, pivot |-> Q_FIELD,
                                       anchor |-> "y"]>>]] :
             m \in {"a", "c"}, q \in {Q_FIELD, Q_ITER}, d \in {"a", "c"}}

Configurations ==
    UNION {{[p \in 1..n |-> [name |-> nm[p], from |-> b[p].from, args |-> b[p].args]] :
               nm \in {f \in [1..n -> {"a", "b", "c"}] : \A p \in 1..n : f[p] \in NamesAt[p]},
               b \in [1..n -> DefBodies]} :
              n \in 1..Len(NamesAt)}

InitLoad ==
    /\ pc = "start"
    /\ args \in [configuration : Configurations,
                 sources : [src : SeqsUpTo(LoadElts, MaxLoadElts)]]
    /\ ret = Return(<<>>)
    /\ loaded = <<>>
    /\ inv = <<>>
    /\ calls = <<>>

(* "Check for multiple definitions of sets"                                *)
check_definitions ==
    /\ pc = "start"
    /\ LET twice == seen_twice(args.configuration)
       IN  IF twice # {}
           THEN /\ ret' = RaiseAbout("YaaniError",
                                     <<args.configuration[Earliest(twice)].name>>)
                /\ pc' = "done"
           ELSE /\ pc' = "load"
                /\ UNCHANGED ret
    /\ UNCHANGED <<args, loaded, inv, calls>>

(* One turn of "Instantiate every data sets".                              *)
create_next_set ==
    /\ pc = "load"
    /\ ds_pos <= Len(args.configuration)
    /\ \E ds_def \in {args.configuration[ds_pos]} :
         /\ \E r \in create_turn(ds_def, args.sources, loaded) :
               IF r.err = "none"
               THEN /\ loaded' = dict_set(loaded, ds_def.name, r.val)
                    /\ UNCHANGED <<pc, ret>>
               ELSE /\ ret' = r
                    /\ pc' = "done"
                    /\ UNCHANGED loaded
         /\ calls' = IF extracts(ds_def, args.sources)
                     THEN Append(calls, <<"extract", ds_def.args.name>>)
                     ELSE calls
    /\ UNCHANGED <<args, inv>>

(* return data_sets                                                        *)
return_data_sets ==
    /\ pc = "load"
    /\ ds_pos > Len(args.configuration)
    /\ ret' = Return(loaded)
    /\ pc' = "done"
    /\ UNCHANGED <<args, loaded, inv, calls>>

NextLoad == check_definitions \/ create_next_set \/ return_data_sets

SpecLoad == InitLoad /\ [][NextLoad]_vars

----------------------------------------------------------------------------
(* Properties of the loader.                                               *)

Config == args.configuration

NamesBefore(p) == {Config[j].name : j \in 1..p - 1}

(* The datasets a definition names.                                        *)
Named(ds_def) ==
    CASE ds_def.from = "filtering" -> {ds_def.args.name}
      [] ds_def.from = "merge" ->
             {ds_def.args.sets[i].name : i \in 1..Len(ds_def.args.sets)}
      [] ds_def.from = "decoration" ->
             {ds_def.args.main.name}
                 \cup {ds_def.args.decorators[i].name :
                          i \in 1..Len(ds_def.args.decorators)}
      [] OTHER -> {}

(* The names of definition p that no earlier definition has.               *)
Missing(p) == Named(Config[p]) \ NamesBefore(p)

(* Loading stopped at a definition that names a set not created before it. *)
StoppedAtMissing ==
    /\ Done
    /\ seen_twice(Config) = {}
    /\ ds_pos <= Len(Config)
    /\ Missing(ds_pos) # {}

(* C12: load_data_sets creates the datasets strictly in declaration       *)
(* order; a definition that names a dataset not created before it is never *)
(* created and fails with a YaaniError whose message names a missing set;  *)
(* then nothing is returned and no later dataset is created.               *)
C12_ForwardReferenceFails ==
    /\ Cardinality(DOMAIN loaded) <= Len(Config)
    /\ DOMAIN loaded = NamesBefore(ds_pos)
    /\ \A p \in 1..ds_pos - 1 : Missing(p) = {}
    /\ StoppedAtMissing =>
           /\ ret.err = "YaaniError"
           /\ \E i \in 1..Len(ret.val) : ret.val[i] \in Missing(ds_pos)

----------------------------------------------------------------------------
(* The renderer: the inventory and the operations that fill it.            *)
(*                                                                         *)
(* The inventory is a dictionary from names to dictionaries: "_meta" holds *)
(* hostvars, a group holds hosts (identifiers), vars and children (names). *)
(* hostvars is a dictionary from identifiers to build namespaces, kept as  *)
(* a sequence of entries in insertion order.  A pair is <<import, build>>. *)

init_inventory == ("_meta" :> [hostvars |-> <<>>])

(* inventory.setdefault(group_name, {}), then setdefault of the three      *)
(* fields of a group: what is there already is kept.                       *)
init_ansible_group(group_name, inventory) ==
    LET grp == IF group_name \in DOMAIN inventory THEN inventory[group_name]
               ELSE <<>>
    IN  dict_set(inventory, group_name,
                 [f \in DOMAIN grp \cup {"hosts", "vars", "children"} |->
                     IF f \in DOMAIN grp THEN grp[f] ELSE <<>>])

(* element_name in hosts: the comparison is Python's ==.                   *)
in_hosts(element_name, hosts) ==
    \E i \in 1..Len(hosts) : py_eq(hosts[i], element_name)

(* add_element_to_group without the membership test.                       *)
add_element_to_group_always(element_name, group_name, inventory) ==
    LET inventory1 == init_ansible_group(group_name, inventory)
    IN  [inventory1 EXCEPT ![group_name].hosts = Append(@, element_name)]

add_element_to_group(element_name, group_name, inventory) ==
    LET inventory1 == init_ansible_group(group_name, inventory)
    IN  IF in_hosts(element_name, inventory1[group_name].hosts)
        THEN inventory1
        ELSE [inventory1 EXCEPT ![group_name].hosts = Append(@, element_name)]

(* inventory['_meta']['hostvars'].update({element_index: element[1]})      *)
load_element_vars(element_index, element, inventory) ==
    LET hostvars == inventory["_meta"].hostvars
    IN  [inventory EXCEPT !["_meta"].hostvars =
            IF dict_has(hostvars, element_index)
            THEN [hostvars EXCEPT ![dict_pos(hostvars, element_index)].value =
                                      element[2]]
            ELSE Append(hostvars, [key |-> element_index, value |-> element[2]])]

(* add_element_to_inventory that leaves the group 'all' alone.             *)
add_element_to_inventory_no_all(elt_idx, elt, ds_name, inventory) ==
    add_element_to_group(elt_idx, ds_name, load_element_vars(elt_idx, elt, inventory))

add_element_to_inventory(elt_idx, elt, ds_name, inventory) ==
    add_element_to_group(elt_idx, "all",
        add_element_to_group(elt_idx, ds_name,
            load_element_vars(elt_idx, elt, inventory)))

(* "Insert every elements of the group in the inventory"                   *)
RECURSIVE insert_elements(_, _, _)
insert_elements(indxd, ds_name, inventory) ==
    IF indxd = <<>> THEN inventory
    ELSE insert_elements(Tail(indxd), ds_name,
             add_element_to_inventory(Head(indxd).key, Head(indxd).elt, ds_name,
                                      inventory))

----------------------------------------------------------------------------
(* Grouping.                                                               *)

G_FIELD == ".g"       \* the field, or null when it is missing
G_ITER  == ".g[]?"    \* every element of a list field
G_BAD   == ".["       \* does not compile

GroupQueries == {G_FIELD, G_ITER, G_BAD}

jq_group(query, ns) ==
    LET v == Get(ns, "g") IN
    CASE query = G_FIELD -> <<v>>
      [] query = G_ITER  -> IF is_container(v) THEN v.l ELSE <<>>
      [] OTHER           -> <<>>

(* jq's flatten: the lists inside the list are opened, at every depth.     *)
RECURSIVE flatten(_)
flatten(items) ==
    IF items = <<>> THEN <<>>
    ELSE (IF Head(items).t = "list" THEN flatten(Head(items).l)
          ELSE <<Head(items)>>) \o flatten(Tail(items))

(* Every expression read from the import namespace.                        *)
namespace_index_import(grp_def) == 1

(* grp_def.get("namespace", "import") == "build": the position of the      *)
(* namespace in the pair.                                                  *)
namespace_index(grp_def) ==
    IF "namespace" \in DOMAIN grp_def /\ grp_def.namespace = "build" THEN 2 ELSE 1

(* [(.[i]<value>), ...]: the results of the expressions, one after the     *)
(* other.                                                                  *)
RECURSIVE group_results(_, _)
group_results(group_by, elt) ==
    IF group_by = <<>> THEN <<>>
    ELSE jq_group(Head(group_by).value, elt[namespace_index(Head(group_by))])
             \o group_results(Tail(group_by), elt)

(* Python's str() of a scalar.                                             *)
str(v) ==
    CASE v.t = "str"  -> v.s
      [] v.t = "num"  -> ToString(v.n)
      [] v.t = "bool" -> IF v.n = 1 THEN "True" ELSE "False"
      [] OTHER        -> "None"

(* Every falsy result skipped.                                             *)
skipped_falsy(group) == ~truthy(group)

(* `if group is not None` fails.                                           *)
skipped(group) == group.t = "null"

RECURSIVE add_to_groups(_, _, _, _)
add_to_groups(indx, groups, group_prefix, inventory) ==
    IF groups = <<>> THEN inventory
    ELSE add_to_groups(indx, Tail(groups), group_prefix,
             IF skipped(Head(groups)) THEN inventory
             ELSE add_element_to_group(indx, group_prefix \o str(Head(groups)),
                                       inventory))

(* "Execute grouping": for indx, groups in mpng.                           *)
RECURSIVE group_loop(_, _, _, _)
group_loop(indexed_data_set, group_by, group_prefix, inventory) ==
    IF indexed_data_set = <<>> THEN inventory
    ELSE group_loop(Tail(indexed_data_set), group_by, group_prefix,
             add_to_groups(Head(indexed_data_set).key,
                           flatten(group_results(group_by,
                                                 Head(indexed_data_set).elt)),
                           group_prefix, inventory))

(* render_group_by: the inventory it leaves, or the exception.  An absent  *)
(* or empty group_by leaves the inventory as it is.                        *)
render_group_by(indexed_data_set, group_by, group_prefix, inventory) ==
    IF group_by = <<>> THEN Return(inventory)
    ELSE IF \E i \in 1..Len(group_by) : group_by[i].value = G_BAD
    THEN Raise("YaaniError")
    ELSE Return(group_loop(indexed_data_set, group_by, group_prefix, inventory))

----------------------------------------------------------------------------
(* Grouping on its own: the indexed elements of the dataset "ds", already  *)
(* inserted in the inventory as render_group does before it groups them.   *)

MaxGroupElts == 2

ImportNs ==
    { EmptyRecord, [g |-> Null], [g |-> Str("a")], [g |-> Num(1)],
      [g |-> Bool(FALSE)], [g |-> List(<<Str("a"), Str("b")>>)],
      [g |-> List(<<Null, List(<<Str("a")>>)>>)] }

BuildNs == { EmptyRecord, [g |-> Str("b")] }

GroupDefs ==
    {[value |-> q] : q \in GroupQueries}
        \cup {[value |-> q, namespace |-> "build"] : q \in {G_FIELD, G_ITER}}

Prefixes == {"", "g_"}

(* The identifier of the element at position i.                            *)
HostId(i) == Str("h" \o ToString(i))

IndexedSets(n) ==
    UNION {{[i \in 1..m |-> [key |-> HostId(i), elt |-> <<imp[i], bld[i]>>]] :
               imp \in [1..m -> ImportNs], bld \in [1..m -> BuildNs]} :
              m \in 0..n}

InitGroupBy ==
    /\ pc = "start"
    /\ args \in [indexed_data_set : IndexedSets(MaxGroupElts),
                 group_by : SeqsUpTo(GroupDefs, 2),
                 group_prefix : Prefixes]
    /\ ret = Return(<<>>)
    /\ loaded = <<>>
    /\ inv = insert_elements(args.indexed_data_set, "ds", init_inventory)
    /\ calls = <<>>

call_render_group_by ==
    /\ pc = "start"
    /\ LET r == render_group_by(args.indexed_data_set, args.group_by,
                                args.group_prefix, inv)
       IN  /\ inv' = IF r.err = "none" THEN r.val ELSE inv
           /\ ret' = IF r.err = "none" THEN Return(<<>>) ELSE r
    /\ pc' = "done"
    /\ UNCHANGED <<args, loaded, calls>>

NextGroupBy == call_render_group_by

SpecGroupBy == InitGroupBy /\ [][NextGroupBy]_vars

----------------------------------------------------------------------------
(* Properties of grouping, stated from the results of the expressions.     *)

Range(seq) == {seq[i] : i \in 1..Len(seq)}

(* The identifiers in the group G of an inventory, none when there is no   *)
(* such group.                                                             *)
HostsOf(inventory, G) ==
    IF G \in DOMAIN inventory /\ "hosts" \in DOMAIN inventory[G]
    THEN Range(inventory[G].hosts) ELSE {}

(* The inventory render_group_by was handed.                               *)
InventoryBefore == insert_elements(args.indexed_data_set, "ds", init_inventory)

Indexed == 1..Len(args.indexed_data_set)

(* The namespace an expression is tagged with, in the pair of element e.   *)
TaggedNs(grp_def, e) ==
    IF "namespace" \in DOMAIN grp_def /\ grp_def.namespace = "build"
    THEN args.indexed_data_set[e].elt[2]
    ELSE args.indexed_data_set[e].elt[1]

(* The flattened results of the group-by expressions for element e.        *)
GroupValues(e) ==
    UNION {Range(flatten(jq_group(args.group_by[d].value,
                                  TaggedNs(args.group_by[d], e)))) :
              d \in 1..Len(args.group_by)}

GroupsOf(e) ==
    {args.group_prefix \o str(v) : v \in {w \in GroupValues(e) : w # Null}}

Grouped == Done /\ ret.err = "none"

(* C13: render_group_by adds every indexed element to the group           *)
(* prefix + str(v) for each non-null value v in the flattened results of   *)
(* its group-by expressions, each read from the namespace it is tagged     *)
(* with, and to no other group.                                            *)
C13_FanOut ==
    Grouped =>
        \A B \in {InventoryBefore} :
            \A G \in DOMAIN inv \cup UNION {GroupsOf(e) : e \in Indexed} :
                HostsOf(inv, G) =
                    HostsOf(B, G)
                        \cup {args.indexed_data_set[e].key :
                                 e \in {x \in Indexed : G \in GroupsOf(x)}}

(* An element whose import expression gives ["a", "b"] and whose build     *)
(* expression gives "b" is in g_a and g_b, and another element is not.     *)
C13_Witness ==
    /\ Grouped
    /\ args.group_prefix = "g_"
    /\ Len(args.group_by) = 2
    /\ \E e \in Indexed :
          /\ GroupValues(e) = {Str("a"), Str("b")}
          /\ args.indexed_data_set[e].elt[1] # args.indexed_data_set[e].elt[2]
          /\ \E d \in 1..2 : TaggedNs(args.group_by[d], e) = [g |-> Str("b")]
          /\ args.indexed_data_set[e].key \in HostsOf(inv, "g_a") \cap HostsOf(inv, "g_b")
    /\ \E e \in Indexed : args.indexed_data_set[e].key \notin HostsOf(inv, "g_a")

(* C14: a null group-by result, alone or inside a list, creates no        *)
(* membership and no group and raises nothing; every other result, false   *)
(* included, gives a membership.                                           *)
C14_OnlyNullSkipped ==
    Done =>
        /\ (\A d \in 1..Len(args.group_by) : args.group_by[d].value # G_BAD)
               => ret.err = "none"
        /\ ret.err = "none" =>
               \A B \in {InventoryBefore} :
                   /\ DOMAIN inv = DOMAIN B \cup UNION {GroupsOf(e) : e \in Indexed}
                   /\ \A e \in Indexed :
                         /\ \A v \in GroupValues(e) \ {Null} :
                               args.indexed_data_set[e].key
                                   \in HostsOf(inv, args.group_prefix \o str(v))
                         /\ GroupValues(e) \subseteq {Null} =>
                               \A G \in DOMAIN inv :
                                   args.indexed_data_set[e].key \in HostsOf(inv, G)
                                       => G \in {"ds", "all"}

(* One element has a null inside a list and is grouped by the rest of the  *)
(* list only, another is grouped by false; no group is named after null.   *)
C14_Witness ==
    /\ Grouped
    /\ args.group_prefix = "g_"
    /\ \E e \in Indexed :
          /\ GroupValues(e) = {Null, Str("a")}
          /\ \A G \in DOMAIN inv :
                args.indexed_data_set[e].key \in HostsOf(inv, G)
                    <=> G \in {"ds", "all", "g_a"}
    /\ \E e \in Indexed :
          /\ Bool(FALSE) \in GroupValues(e)
          /\ args.indexed_data_set[e].key \in HostsOf(inv, "g_False")
    /\ "g_None" \notin DOMAIN inv

----------------------------------------------------------------------------
(* Group insertion on its own: any sequence of add_element_to_group calls  *)
(* on an inventory that starts from init_inventory.  args is the last      *)
(* call's arguments.                                                       *)

GroupIds == {Num(1), Bool(TRUE), Str("a")}

GroupNames == {"grp1", "all", "_meta"}

InitGroup ==
    /\ pc = "start"
    /\ args = <<>>
    /\ ret = Return(<<>>)
    /\ loaded = <<>>
    /\ inv = init_inventory
    /\ calls = <<>>

call_add_element_to_group ==
    /\ \E element_name \in GroupIds, group_name \in GroupNames :
          /\ args' = [element_name |-> element_name, group_name |-> group_name]
          /\ inv' = add_element_to_group(element_name, group_name, inv)
    /\ pc' = "done"
    /\ UNCHANGED <<ret, loaded, calls>>

NextGroup == call_add_element_to_group

SpecGroup == InitGroup /\ [][NextGroup]_vars

(* No identifier is twice in the hosts of a group.                         *)
NoHostTwice(inventory) ==
    \A G \in DOMAIN inventory :
        "hosts" \in DOMAIN inventory[G] =>
            \A i, j \in 1..Len(inventory[G].hosts) :
                i < j => inventory[G].hosts[i] # inventory[G].hosts[j]

(* C15: after any sequence of add_element_to_group calls from             *)
(* init_inventory no hosts list holds the same identifier twice, and a     *)
(* call that inserts an identifier that is already in the group leaves the *)
(* whole inventory as it was.                                              *)
C15_IdempotentInsertion ==
    [][/\ NoHostTwice(inv')
       /\ args'.element_name \in HostsOf(inv, args'.group_name) => inv' = inv]_vars

(* The last call inserted, in a group of two, the identifier that was      *)
(* there first, and the group still has two.                               *)
C15_Witness ==
    /\ pc = "done"
    /\ args.group_name \in DOMAIN inv
    /\ Len(inv[args.group_name].hosts) = 2
    /\ inv[args.group_name].hosts[1] = args.element_name

----------------------------------------------------------------------------
(* The steps of render_group.  In the pipeline a pair is                   *)
(* <<import, build, uid>>: the third member stands for id(elt), the        *)
(* identity of the tuple object, which the steps use as a dictionary key.  *)

(* tmp_dct = {id(elt): elt for elt in ...}: one entry for each object, in  *)
(* the order of its first occurrence.                                      *)
RECURSIVE by_id(_, _)
by_id(elt_list, seen) ==
    IF elt_list = <<>> THEN <<>>
    ELSE IF Head(elt_list)[3] \in seen THEN by_id(Tail(elt_list), seen)
    ELSE <<Head(elt_list)>> \o by_id(Tail(elt_list), seen \cup {Head(elt_list)[3]})

C_FIELD == ".ok"           \* the field, or null when it is missing
C_ITER  == ".ok[]?"        \* every element of a list field
C_BAD   == ".i[d <= 2"     \* does not compile

Conditions == {C_FIELD, C_ITER, C_BAD}

jq_cond(query, ns) ==
    LET v == Get(ns, "ok") IN
    CASE query = C_FIELD -> <<v>>
      [] query = C_ITER  -> IF is_container(v) THEN v.l ELSE <<>>
      [] OTHER           -> <<>>

(* jq's truth: everything but null and false.                              *)
jq_truthy(v) == ~(v.t = "null" \/ (v.t = "bool" /\ v.n = 0))

(* select(f) emits its input once for each value of f that is true.        *)
selected_times(cnd_value, ns) ==
    Cardinality({j \in 1..Len(jq_cond(cnd_value, ns)) :
                    jq_truthy(jq_cond(cnd_value, ns)[j])})

(* [ .[] | select(.[1]<cnd>) | .[0] ], then [tmp_dct[k] for k in ...]      *)
RECURSIVE select_loop(_, _, _)
select_loop(cnd_value, elts, ns_index) ==
    IF elts = <<>> THEN <<>>
    ELSE [k \in 1..selected_times(cnd_value, Head(elts)[ns_index]) |-> Head(elts)]
             \o select_loop(cnd_value, Tail(elts), ns_index)

apply_condition(cnd_value, elt_list, rndrd_ns) ==
    IF cnd_value = C_BAD THEN Raise("YaaniError")
    ELSE Return(select_loop(cnd_value, by_id(elt_list, {}),
                            IF rndrd_ns THEN 2 ELSE 1))

H_FIELD   == ".x"          \* the field, or null when it is missing
H_MISSING == ".d"          \* a field no element has: null
H_ITER    == ".x[]?"       \* every element of a list field
H_BAD     == ".a3w["       \* does not compile

HostVarQueries == {H_FIELD, H_MISSING, H_ITER, H_BAD}

jq_var(query, ns) ==
    CASE query = H_FIELD   -> <<Get(ns, "x")>>
      [] query = H_MISSING -> <<Get(ns, "d")>>
      [] query = H_ITER    -> IF is_container(Get(ns, "x")) THEN Get(ns, "x").l
                              ELSE <<>>
      [] OTHER             -> <<>>

(* How many objects {var: (vardf), ...} makes: one for each combination of *)
(* the values of its expressions.                                          *)
RECURSIVE combinations(_, _, _)
combinations(config, names, ns) ==
    IF names = {} THEN 1
    ELSE LET var == CHOOSE n \in names : TRUE
         IN  Len(jq_var(config[var], ns)) * combinations(config, names \ {var}, ns)

(* The import namespace projected whatever the configuration.              *)
rendered_import(config, ns) == <<ns>>

(* The members of the tuple of a pair after its uid: the import namespace  *)
(* when no variable is configured, else the objects made.  Only a tuple    *)
(* with one object is ever read.                                           *)
rendered(config, ns) ==
    IF DOMAIN config = {} THEN <<ns>>
    ELSE [k \in 1..combinations(config, DOMAIN config, ns) |->
             [var \in DOMAIN config |-> jq_var(config[var], ns)[1]]]

(* for uid, rndrd in [tuple(e) for e in comptd]: tmp_dct[uid][1].update(rndrd) *)
(* The first tuple that is not a pair raises ValueError, which is raised   *)
(* again as a YaaniError.                                                  *)
render_host_vars(config, data_set) ==
    IF \E var \in DOMAIN config : config[var] = H_BAD THEN Raise("YaaniError")
    ELSE IF \E i \in 1..Len(data_set) : Len(rendered(config, data_set[i][1])) # 1
    THEN Raise("YaaniError")
    ELSE Return([i \in 1..Len(data_set) |->
                    <<data_set[i][1],
                      update(data_set[i][2], rendered(config, data_set[i][1])[1]),
                      data_set[i][3]>>])

(* index_elements: the loop is that of map_elt_to_value in exclusive mode, *)
(* over the namespace index_cfg selects; the view holds the pairs.         *)
index_elements(index_cfg, data_set) ==
    LET elts == by_id(data_set, {})
        i == IF "namespace" \in DOMAIN index_cfg /\ index_cfg.namespace = "build"
             THEN 2 ELSE 1
        r == map_elt_to_value(index_cfg.value, [e \in 1..Len(elts) |-> elts[e][i]],
                              FALSE)
    IN  IF r.err # "none" THEN r
        ELSE Return([e \in 1..Len(r.val) |->
                        [key |-> r.val[e].key, elt |-> elts[r.val[e].refs[1]]]])

(* rdr_opts["args"].get(option, default)                                   *)
opt(rdr_opts, option, default) ==
    IF option \in DOMAIN rdr_opts.args THEN rdr_opts.args[option] ELSE default

(* What a step that works on the inventory leaves: the exception if any,   *)
(* and the inventory.                                                      *)
Left(e, inventory) == [err |-> e, inventory |-> inventory]

(* The first part of render_group, from the dataset to the indexed pairs.  *)
(* An absent condition is "".  A YaaniError of a step is raised again as a *)
(* YaaniError, any other exception escapes as it is.                       *)
render_pairs(rdr_opts, data_sets) ==
    IF rdr_opts.name \notin DOMAIN data_sets
    THEN RaiseAbout("YaaniError", <<rdr_opts.name>>)
    ELSE
    LET ds_content == data_sets[rdr_opts.name]
        rdr_pre_cdtn == opt(rdr_opts, "pre_condition", "")
        rdr_post_cdtn == opt(rdr_opts, "post_condition", <<>>)
        cntnt0 == [e \in 1..Len(ds_content) |-> <<ds_content[e], EmptyRecord, e>>]
        pre == IF rdr_pre_cdtn # "" THEN apply_condition(rdr_pre_cdtn, cntnt0, FALSE)
               ELSE Return(cntnt0)
    IN  IF pre.err # "none" THEN pre ELSE
    LET vrs == render_host_vars(opt(rdr_opts, "host_vars", <<>>), pre.val)
    IN  IF vrs.err # "none" THEN vrs ELSE
    LET post == IF rdr_post_cdtn # <<>>
                THEN apply_condition(rdr_post_cdtn.value, vrs.val,
                                     "namespace" \in DOMAIN rdr_post_cdtn
                                         /\ rdr_post_cdtn.namespace = "build")
                ELSE vrs
    IN  IF post.err # "none" THEN post
        ELSE index_elements(rdr_opts.args.index, post.val)

(* render_group: the pairs are indexed, inserted, then grouped.            *)
render_group(rdr_opts, data_sets, inventory) ==
    LET indxd == render_pairs(rdr_opts, data_sets)
    IN  IF indxd.err # "none" THEN Left(indxd.err, inventory) ELSE
    LET inventory1 == insert_elements(indxd.val, rdr_opts.name, inventory)
        grpd == render_group_by(indxd.val, opt(rdr_opts, "group_by", <<>>),
                                opt(rdr_opts, "group_prefix", ""), inventory1)
    IN  IF grpd.err # "none" THEN Left(grpd.err, inventory1)
        ELSE Left("none", grpd.val)

(* inventory[group_name]['vars'] = data                                    *)
load_group_vars(group_name, data, inventory) ==
    [init_ansible_group(group_name, inventory) EXCEPT ![group_name].vars = data]

(* A value of the hierarchy: a mapping, held as its items in order, or     *)
(* anything else (None at the leaves).                                     *)
Mapping(items) == [dict |-> TRUE, items |-> items]

NotMapping == [dict |-> FALSE, items |-> <<>>]

(* for parent, children in hierarchy.items(): the group is initialised     *)
(* and, when children is a dict, its children are set to the keys of       *)
(* children and the function is applied to children.                       *)
RECURSIVE load_group_hierarchy(_, _)
load_group_hierarchy(hierarchy, inventory) ==
    IF hierarchy = <<>> THEN inventory
    ELSE LET parent == Head(hierarchy).key
             children == Head(hierarchy).value
             inventory1 == init_ansible_group(parent, inventory)
         IN  load_group_hierarchy(Tail(hierarchy),
                 IF children.dict
                 THEN load_group_hierarchy(children.items,
                          [inventory1 EXCEPT ![parent].children =
                              [c \in 1..Len(children.items) |->
                                  children.items[c].key]])
                 ELSE inventory1)

(* The loop of render_inventory over configuration["elements"].            *)
RECURSIVE render_elements(_, _, _)
render_elements(elements, data_sets, inventory) ==
    IF elements = <<>> THEN Left("none", inventory)
    ELSE LET r == render_group(Head(elements), data_sets, inventory)
         IN  IF r.err # "none" THEN r
             ELSE render_elements(Tail(elements), data_sets, r.inventory)

(* The loop over configuration.get("group_vars", []).                      *)
RECURSIVE render_group_vars(_, _, _)
render_group_vars(group_vars, data_sets, inventory) ==
    IF group_vars = <<>> THEN Left("none", inventory)
    ELSE IF Head(group_vars).set \notin DOMAIN data_sets
    THEN Left("YaaniError", inventory)
    ELSE render_group_vars(Tail(group_vars), data_sets,
             load_group_vars(Head(group_vars).group,
                             data_sets[Head(group_vars).set], inventory))

(* configuration.get(key, default)                                         *)
cfg_get(configuration, key, default) ==
    IF key \in DOMAIN configuration THEN configuration[key] ELSE default

(* The loop over group_vars runs once the elements are rendered; an       *)
(* exception of the elements loop ends render_inventory.                   *)
then_group_vars(configuration, data_sets, r) ==
    IF r.err # "none" THEN r
    ELSE render_group_vars(cfg_get(configuration, "group_vars", <<>>),
                           data_sets, r.inventory)

(* The hierarchy is loaded last, unless an exception came before.          *)
then_group_hierarchy(configuration, v) ==
    IF v.err # "none" THEN v
    ELSE Left("none",
              load_group_hierarchy(cfg_get(configuration, "group_hierarchy", <<>>),
                                   v.inventory))

(* render_inventory that renders whatever the mode is.                     *)
render_inventory_listing(list_mode, configuration, data_sets) ==
    then_group_hierarchy(configuration,
        then_group_vars(configuration, data_sets,
            render_elements(configuration.elements, data_sets, init_inventory)))

(* render_inventory: what it leaves.  Outside list mode the inventory is   *)
(* returned as init_inventory made it.                                     *)
render_inventory(list_mode, configuration, data_sets) ==
    IF ~list_mode THEN Left("none", init_inventory)
    ELSE then_group_hierarchy(configuration,
             then_group_vars(configuration, data_sets,
                 render_elements(configuration.elements, data_sets,
                                 init_inventory)))

----------------------------------------------------------------------------
(* The renderer at work: the datasets "ds1" and "ds2" and a render         *)
(* configuration of one or two elements.                                   *)

MaxRenderElts == 2

RenderElts ==
    { [id |-> Num(1), ok |-> Bool(TRUE), x |-> Str("a"), g |-> Str("a")],
      [id |-> Num(1), ok |-> Bool(FALSE), x |-> Str("b")],
      [id |-> Num(2), ok |-> Bool(TRUE), x |-> Str("a")],
      [ok |-> Bool(TRUE), x |-> Str("a")] }

RenderArgs ==
    { [index |-> [value |-> Q_FIELD]],
      [index |-> [value |-> Q_FIELD], pre_condition |-> C_FIELD],
      [index |-> [value |-> Q_FIELD, namespace |-> "build"],
       host_vars |-> [id |-> H_FIELD]],
      [index |-> [value |-> Q_FIELD], host_vars |-> [x |-> H_FIELD],
       post_condition |-> [value |-> C_FIELD]],
      [index |-> [value |-> Q_FIELD], group_by |-> <<[value |-> G_FIELD]>>,
       group_prefix |-> "g_"] }

RenderElements ==
    UNION {[1..n -> [name : {"ds1", "ds2"}, args : RenderArgs]] : n \in 1..2}

(* What the configuration has besides its elements.                        *)
RenderExtras ==
    { <<>>,
      [group_vars |-> <<[group |-> "grp", set |-> "ds1"]>>,
       group_hierarchy |-> <<[key |-> "top",
                              value |-> Mapping(<<[key |-> "ds1",
                                                   value |-> NotMapping]>>)]>>],
      [group_vars |-> <<[group |-> "_meta", set |-> "ds1"]>>],
      [group_hierarchy |-> <<[key |-> "_meta", value |-> NotMapping]>>] }

InitRender ==
    /\ pc = "start"
    /\ \E data \in DataSetLists(RenderElts, 2, MaxRenderElts) :
         \E elements \in RenderElements, extras \in RenderExtras, list \in BOOLEAN :
           args = [list |-> list,
                   configuration |->
                       [k \in {"elements"} \cup DOMAIN extras |->
                           IF k = "elements" THEN elements ELSE extras[k]],
                   data_sets |-> [ds1 |-> data[1], ds2 |-> data[2]]]
    /\ ret = Return(<<>>)
    /\ loaded = <<>>
    /\ inv = <<>>
    /\ calls = <<>>

call_render_inventory ==
    /\ pc = "start"
    /\ \E r \in {render_inventory(args.list, args.configuration, args.data_sets)} :
           /\ inv' = r.inventory
           /\ ret' = IF r.err = "none" THEN Return(<<>>) ELSE Raise(r.err)
    /\ pc' = "done"
    /\ UNCHANGED <<args, loaded, calls>>

NextRender == call_render_inventory

SpecRender == InitRender /\ [][NextRender]_vars

----------------------------------------------------------------------------
(* Properties of the renderer, stated from the pairs each render element   *)
(* indexes.                                                                *)

RenderedElements == args.configuration.elements

Rendered == Done /\ args.list /\ ret.err = "none"

(* For each render element, the indexed pairs: what survives its           *)
(* conditions and its indexing.                                            *)
Survivors ==
    [k \in 1..Len(RenderedElements) |->
        render_pairs(RenderedElements[k], args.data_sets).val]

(* The productions of the identifier h: the indexed pairs that have it.    *)
ProducersOf(S, h) ==
    {p \in UNION {{<<k, e>> : e \in 1..Len(S[k])} : k \in DOMAIN S} :
        py_eq(S[p[1]][p[2]].key, h)}

(* C16: after render_inventory in list mode every identifier in a hosts   *)
(* list was produced by the indexing step exactly once over the whole      *)
(* invocation, and is a key of _meta.hostvars whose value is the build     *)
(* record of the element that produced it.                                 *)
C16_ProducedExactlyOnce ==
    Rendered =>
        \A S \in {Survivors} :
            \A G \in DOMAIN inv :
                \A h \in HostsOf(inv, G) :
                    /\ Cardinality(ProducersOf(S, h)) = 1
                    /\ \A p \in ProducersOf(S, h) :
                          \E i \in 1..Len(inv["_meta"].hostvars) :
                              /\ inv["_meta"].hostvars[i].key = h
                              /\ inv["_meta"].hostvars[i].value = S[p[1]][p[2]].elt[2]

(* The groups the group-by expressions of render element k give the pair.  *)
GroupByGroups(k, elt) ==
    {opt(RenderedElements[k], "group_prefix", "") \o str(v) :
        v \in Range(flatten(group_results(opt(RenderedElements[k], "group_by", <<>>),
                                          elt))) \ {Null}}

(* C17: every pair that survives the conditions and the indexing of a     *)
(* render element is in the group named after the element's dataset and in *)
(* `all`; every membership and every _meta.hostvars entry is that of a     *)
(* surviving pair, so that a pair dropped by a condition or by a null      *)
(* identifier is added to no group and gets no entry.                      *)
C17_SurvivorsAreMembers ==
    Rendered =>
        \A S \in {Survivors} :
            /\ \A k \in DOMAIN S : \A e \in 1..Len(S[k]) :
                  S[k][e].key \in HostsOf(inv, RenderedElements[k].name)
                                      \cap HostsOf(inv, "all")
            /\ \A G \in DOMAIN inv : \A h \in HostsOf(inv, G) :
                  \E k \in DOMAIN S : \E e \in 1..Len(S[k]) :
                      /\ S[k][e].key = h
                      /\ G \in {RenderedElements[k].name, "all"}
                                  \cup GroupByGroups(k, S[k][e].elt)
            /\ \A i \in 1..Len(inv["_meta"].hostvars) :
                  \E k \in DOMAIN S : \E e \in 1..Len(S[k]) :
                      /\ S[k][e].key = inv["_meta"].hostvars[i].key
                      /\ S[k][e].elt[2] = inv["_meta"].hostvars[i].value

(* A dataset of two elements, one without identifier, rendered twice: the  *)
(* first render element keeps the other one, which is in the dataset's     *)
(* group and in `all`; the second has a pre-condition that drops it.       *)
C17_Witness ==
    /\ Rendered
    /\ Len(RenderedElements) = 2
    /\ \A S \in {Survivors} :
          /\ Len(S[1]) = 1
          /\ S[2] = <<>>
          /\ Len(args.data_sets[RenderedElements[1].name]) = 2
          /\ "pre_condition" \in DOMAIN RenderedElements[2].args
          /\ \E e \in 1..2 :
                /\ "id" \notin DOMAIN args.data_sets[RenderedElements[2].name][e]
                /\ jq_truthy(Get(args.data_sets[RenderedElements[2].name][e], "ok"))
          /\ HostsOf(inv, RenderedElements[1].name) = {S[1][1].key}
          /\ HostsOf(inv, "all") = {S[1][1].key}
          /\ Len(inv["_meta"].hostvars) = 1

----------------------------------------------------------------------------
(* Host-var projection on its own: the pairs render_group hands over, each *)
(* with an empty build namespace; a pair may stand twice in the list.      *)

MaxVarElts == 2

HostVarNs ==
    { EmptyRecord, [x |-> Str("a")], [x |-> Str("a"), y |-> Str("b")],
      [x |-> List(<<Str("a")>>)], [x |-> List(<<Str("a"), Str("b")>>)] }

HostVarConfigs ==
    { <<>>, [a |-> H_FIELD], [a |-> H_FIELD, b |-> H_MISSING], [a |-> H_ITER],
      [a |-> H_FIELD, b |-> H_ITER], [a |-> H_BAD, b |-> H_FIELD] }

PairLists(n) ==
    UNION {{[i \in 1..m |-> <<ns[uid[i]], EmptyRecord, uid[i]>>] :
               ns \in [1..m -> HostVarNs], uid \in [1..m -> 1..m]} :
              m \in 0..n}

InitHostVars ==
    /\ pc = "start"
    /\ args \in [config : HostVarConfigs, data_set : PairLists(MaxVarElts)]
    /\ ret = Return(<<>>)
    /\ loaded = <<>>
    /\ inv = <<>>
    /\ calls = <<>>

call_render_host_vars ==
    /\ pc = "start"
    /\ ret' = render_host_vars(args.config, args.data_set)
    /\ pc' = "done"
    /\ UNCHANGED <<args, loaded, inv, calls>>

NextHostVars == call_render_host_vars

SpecHostVars == InitHostVars /\ [][NextHostVars]_vars

(* Every configured expression is a valid query with exactly one value on  *)
(* every pair.                                                             *)
OneValueEach ==
    /\ \A var \in DOMAIN args.config : args.config[var] # H_BAD
    /\ \A i \in 1..Len(args.data_set) : \A var \in DOMAIN args.config :
        Len(jq_var(args.config[var], args.data_set[i][1])) = 1

(* C18: after render_host_vars with a non-empty mapping the build         *)
(* namespace of each pair has exactly the configured names, each holding   *)
(* the value of its expression on the pair's import namespace (null when   *)
(* the path is missing); with an empty mapping each build namespace equals *)
(* the import namespace; the number and the order of the pairs are kept.   *)
C18_HostVarsProjected ==
    Done =>
        /\ OneValueEach => ret.err = "none"
        /\ ret.err = "none" =>
              /\ Len(ret.val) = Len(args.data_set)
              /\ \A i \in 1..Len(ret.val) :
                    /\ ret.val[i][1] = args.data_set[i][1]
                    /\ ret.val[i][3] = args.data_set[i][3]
                    /\ IF DOMAIN args.config = {}
                       THEN ret.val[i][2] = ret.val[i][1]
                       ELSE /\ DOMAIN ret.val[i][2] = DOMAIN args.config
                            /\ \A var \in DOMAIN args.config :
                                  jq_var(args.config[var], ret.val[i][1])
                                      = <<ret.val[i][2][var]>>

(* Two different pairs, a mapping of two names one of which has a missing  *)
(* path: the build namespaces hold the value and null.                     *)
C18_Witness ==
    /\ Done
    /\ ret.err = "none"
    /\ args.config = [a |-> H_FIELD, b |-> H_MISSING]
    /\ Len(ret.val) = 2
    /\ ret.val[1][3] # ret.val[2][3]
    /\ ret.val[1][2] = [a |-> Str("a"), b |-> Null]
    /\ ret.val[1][1] = [x |-> Str("a"), y |-> Str("b")]

----------------------------------------------------------------------------
(* Conditions on their own: pairs whose import and build namespaces carry  *)
(* the tested field, as a boolean, a number, a list of booleans or not at  *)
(* all; a pair may stand twice in the list.                                *)

MaxCondElts == 2

CondImportNs ==
    { EmptyRecord, [ok |-> Bool(TRUE)], [ok |-> Num(0)],
      [ok |-> List(<<Bool(TRUE), Bool(TRUE)>>)],
      [ok |-> List(<<Bool(FALSE), Bool(TRUE)>>)] }

CondBuildNs == { EmptyRecord, [ok |-> Bool(FALSE)], [ok |-> Bool(TRUE)] }

CondPairs(n) ==
    UNION {{[i \in 1..m |-> <<im[uid[i]], bd[uid[i]], uid[i]>>] :
               im \in [1..m -> CondImportNs], bd \in [1..m -> CondBuildNs],
               uid \in [1..m -> 1..m]} :
              m \in 0..n}

InitCondition ==
    /\ pc = "start"
    /\ args \in [cnd_value : Conditions, elt_list : CondPairs(MaxCondElts),
                 rndrd_ns : BOOLEAN]
    /\ ret = Return(<<>>)
    /\ loaded = <<>>
    /\ inv = <<>>
    /\ calls = <<>>

call_apply_condition ==
    /\ pc = "start"
    /\ ret' = apply_condition(args.cnd_value, args.elt_list, args.rndrd_ns)
    /\ pc' = "done"
    /\ UNCHANGED <<args, loaded, inv, calls>>

NextCondition == call_apply_condition

SpecCondition == InitCondition /\ [][NextCondition]_vars

(* The namespace of a pair the predicate is evaluated on.                  *)
Tested(pair) == IF args.rndrd_ns THEN pair[2] ELSE pair[1]

(* The predicate has a true value on the pair.                             *)
Truthy(pair) ==
    \E j \in 1..Len(jq_cond(args.cnd_value, Tested(pair))) :
        jq_truthy(jq_cond(args.cnd_value, Tested(pair))[j])

(* Where the pair of that identity first stands in the list given.        *)
FirstAt(uid) ==
    CHOOSE i \in 1..Len(args.elt_list) :
        /\ args.elt_list[i][3] = uid
        /\ \A j \in 1..(i - 1) : args.elt_list[j][3] # uid

(* The pairs returned are exactly the pairs given on which the predicate   *)
(* is true, in the order given.                                            *)
TruthyInOrder ==
    /\ \A i \in 1..Len(ret.val) :
          \E j \in 1..Len(args.elt_list) :
              ret.val[i] = args.elt_list[j] /\ Truthy(args.elt_list[j])
    /\ \A j \in 1..Len(args.elt_list) :
          Truthy(args.elt_list[j]) =>
              \E i \in 1..Len(ret.val) : ret.val[i] = args.elt_list[j]
    /\ \A i, k \in 1..Len(ret.val) :
          i < k => FirstAt(ret.val[i][3]) <= FirstAt(ret.val[k][3])

(* No pair is returned twice.                                              *)
AtMostOnce ==
    \A i, k \in 1..Len(ret.val) : i # k => ret.val[i][3] # ret.val[k][3]

(* C19: apply_condition returns, in their original order and each at most *)
(* once, exactly those pairs for which the predicate is truthy on the      *)
(* selected namespace: the import namespace, or the build namespace when   *)
(* a post-condition is configured so.                                      *)
C19_ExactlyTheTruthyPairs ==
    (Done /\ ret.err = "none") => (TruthyInOrder /\ AtMostOnce)

----------------------------------------------------------------------------
(* The group hierarchy on its own: nested mappings of a few group names,   *)
(* loaded into a new inventory or into one where a group already has hosts *)
(* and vars.                                                               *)

MaxNodes == 4

HierarchyNames == {"a", "b", "c"}

(* The keys of one mapping, which are distinct.                            *)
item_keys(items) == {items[i].key : i \in 1..Len(items)}

(* The mappings, as their items, with at most n keys in all.               *)
RECURSIVE Hierarchies(_)
Hierarchies(n) ==
    {<<>>} \cup
    UNION {UNION {{<<[key |-> k, value |-> v]>> \o rest :
                      k \in HierarchyNames \ item_keys(rest),
                      v \in {NotMapping} \cup {Mapping(h) : h \in Hierarchies(j)}} :
                     rest \in Hierarchies(n - 1 - j)} :
              j \in 0..(n - 1)}

Inventories ==
    { init_inventory,
      add_element_to_group(Num(1), "a",
          load_group_vars("a", [v |-> Num(1)], init_inventory)) }

InitHierarchy ==
    /\ pc = "start"
    /\ args \in [hierarchy : Hierarchies(MaxNodes), inventory : Inventories]
    /\ ret = Return(<<>>)
    /\ loaded = <<>>
    /\ inv = args.inventory
    /\ calls = <<>>

call_load_group_hierarchy ==
    /\ pc = "start"
    /\ inv' = load_group_hierarchy(args.hierarchy, inv)
    /\ ret' = Return(<<>>)
    /\ pc' = "done"
    /\ UNCHANGED <<args, loaded, calls>>

NextHierarchy == call_load_group_hierarchy

SpecHierarchy == InitHierarchy /\ [][NextHierarchy]_vars

(* Every name that is a key somewhere in the mapping.                      *)
RECURSIVE KeysIn(_)
KeysIn(items) ==
    item_keys(items) \cup
    UNION {IF items[i].value.dict THEN KeysIn(items[i].value.items) ELSE {} :
              i \in 1..Len(items)}

(* Every parent -> child pair somewhere in the mapping.                    *)
RECURSIVE LinksIn(_)
LinksIn(items) ==
    UNION {IF items[i].value.dict
           THEN {<<items[i].key, c>> : c \in item_keys(items[i].value.items)}
                    \cup LinksIn(items[i].value.items)
           ELSE {} :
              i \in 1..Len(items)}

AllGroupsExist ==
    \A g \in KeysIn(args.hierarchy) :
        g \in DOMAIN inv /\ {"hosts", "vars", "children"} \subseteq DOMAIN inv[g]

AllLinksListed ==
    \A link \in LinksIn(args.hierarchy) :
        /\ link[1] \in DOMAIN inv
        /\ "children" \in DOMAIN inv[link[1]]
        /\ link[2] \in Range(inv[link[1]].children)

HostsAndVarsKept ==
    \A g \in DOMAIN args.inventory \ {"_meta"} :
        /\ g \in DOMAIN inv
        /\ inv[g].hosts = args.inventory[g].hosts
        /\ inv[g].vars = args.inventory[g].vars

(* C20: after load_group_hierarchy every name that is a key in the        *)
(* mapping is a group with hosts, vars and children; for every parent ->   *)
(* child pair anywhere in the mapping, also when the same parent stands at *)
(* several places, the child is in the parent's children; the hosts and    *)
(* vars of the groups that existed before are unchanged.                   *)
C20_HierarchyLinksAll ==
    Done => (AllGroupsExist /\ AllLinksListed /\ HostsAndVarsKept)

----------------------------------------------------------------------------
(* Failures of the loader.                                                 *)

(* load_data_sets has raised while processing the definition at ds_pos.    *)
FailedAtDefinition ==
    /\ Done
    /\ seen_twice(Config) = {}
    /\ ret.err # "none"

(* C24: every failure load_data_sets raises while processing one dataset  *)
(* definition (argument validation, undeclared source, or any failure of   *)
(* the creation step, indexing included) is a YaaniError whose message     *)
(* carries the name of that definition; no other exception type escapes.   *)
C24_FailureNamesDefinition ==
    FailedAtDefinition =>
        /\ ret.err = "YaaniError"
        /\ \E i \in 1..Len(ret.val) : ret.val[i] = Config[ds_pos].name

(* Two definitions share a name.                                           *)
SharedName ==
    \E p, q \in 1..Len(Config) : p # q /\ Config[p].name = Config[q].name

(* C28: if two dataset definitions share a name, load_data_sets raises a  *)
(* YaaniError before any dataset is created and before extract is called   *)
(* on any source; so every dataset name is produced by one definition.     *)
C28_SharedNameFailsFirst ==
    /\ SharedName =>
          /\ loaded = <<>>
          /\ calls = <<>>
          /\ pc # "load"
          /\ Done => ret.err = "YaaniError"
    /\ \A n \in DOMAIN loaded :
          Cardinality({p \in 1..Len(Config) : Config[p].name = n}) = 1

(* Two definitions named "a", the first made from the declared source:     *)
(* the loader has stopped with nothing created and nothing extracted.      *)
C28_Witness ==
    /\ Done
    /\ SharedName
    /\ Config[1].from = "source"
    /\ Config[1].args.name = "src"
    /\ args.sources.src # <<>>
    /\ ret = RaiseAbout("YaaniError", <<"a">>)
    /\ loaded = <<>>
    /\ calls = <<>>

----------------------------------------------------------------------------
(* The main record under decoration.                                       *)

(* C27: every output record of decorate_dataset keeps every field of its  *)
(* main record with the main record's value, also when a decorator that    *)
(* has a match at the key uses an anchor that is one of the main record's  *)
(* field names.                                                            *)
C27_MainFieldsKept ==
    (Done /\ ret.err = "none") =>
        \A from \in {AllRefs(MainView.val)} :
            /\ Len(ret.val) = Len(from)
            /\ \A p \in 1..Len(ret.val) :
                  \A main \in {MainSet[from[p].ref]} :
                      /\ DOMAIN main \subseteq DOMAIN ret.val[p]
                      /\ \A f \in DOMAIN main : ret.val[p][f] = main[f]

----------------------------------------------------------------------------
(* The merge engine and the order of the declared sets.                    *)

(* No field holds different values in two sets' records at the same key.   *)
NoConflict(R) ==
    \A i, j \in Sets : \A k \in DOMAIN R[i] \cap DOMAIN R[j] :
        \A f \in DOMAIN R[i][k] \cap DOMAIN R[j][k] : R[i][k][f] = R[j][k][f]

(* The declared sets in the order o.                                       *)
Permuted(o) == [i \in Sets |-> args.set_lst[o[i]]]

(* C30: with empty priorities merge_sets depends on the declaration order *)
(* of the sets only through conflicts: if no field name holds different    *)
(* values in two sets' records at the same key, every permutation of the   *)
(* declared sets yields the same set of output records.                    *)
C30_OrderOnlyThroughConflicts ==
    (Done /\ args.keys = <<>> /\ ret.err = "none") =>
        \A R \in {Records(Views)} :
            NoConflict(R) =>
                \A o \in Orderings(Sets) :
                    \A r \in merge_sets(Permuted(o), <<>>) :
                        /\ r.err = "none"
                        /\ Range(r.val) = Range(ret.val)

(* Two sets hold records with a common field at one key, with the same     *)
(* value, one of them has a key the other lacks, and records are returned. *)
C30_Witness ==
    /\ Done
    /\ args.keys = <<>>
    /\ ret.err = "none"
    /\ Len(ret.val) >= 2
    /\ \E R \in {Records(Views)} :
          /\ NoConflict(R)
          /\ \E k \in DOMAIN R[1] \cap DOMAIN R[2] :
                DOMAIN R[1][k] \cap DOMAIN R[2][k] # {}
          /\ DOMAIN R[1] # DOMAIN R[2]

----------------------------------------------------------------------------
(* The `_meta` entry of the inventory.                                     *)

(* C26: in every inventory that render_inventory produces the `_meta`     *)
(* entry contains only the key hostvars: no dataset name, group-by result, *)
(* group_vars group name or hierarchy name ever causes hosts, vars or      *)
(* children to be added to `_meta`.                                        *)
C26_MetaHoldsHostvarsOnly ==
    (Done /\ ret.err = "none") => DOMAIN inv["_meta"] = {"hostvars"}

----------------------------------------------------------------------------
(* The renderer outside list mode.                                         *)

(* C29: when list mode is off, render_inventory returns exactly the empty *)
(* inventory {'_meta': {'hostvars': {}}} and performs no element           *)
(* rendering, no group-vars step and no hierarchy step, whatever the       *)
(* render configuration and the datasets are.                              *)
C29_EmptyOutsideListMode ==
    (Done /\ ~args.list) =>
        /\ ret.err = "none"
        /\ inv = ("_meta" :> [hostvars |-> <<>>])

(* List mode is off and the inventory is empty, with a configuration and   *)
(* datasets that give hosts, group vars and a hierarchy in list mode.      *)
C29_Witness ==
    /\ Done
    /\ ~args.list
    /\ inv = ("_meta" :> [hostvars |-> <<>>])
    /\ {"group_vars", "group_hierarchy"} \subseteq DOMAIN args.configuration
    /\ \E r \in {render_inventory(TRUE, args.configuration, args.data_sets)} :
          /\ r.err = "none"
          /\ r.inventory["_meta"].hostvars # <<>>
          /\ {"grp", "top", "ds1"} \subseteq DOMAIN r.inventory

----------------------------------------------------------------------------
(* The transform hook: Utils.transform_inventory.                          *)
(*                                                                         *)
(* The modules directory holds one module, "m", with the functions "f" and *)
(* "g".  A custom function leaves in the inventory a group of its own name *)
(* whose children are the groups it found there, so that what it returns   *)
(* depends on what it was given.  calls holds the calls made so far, in    *)
(* order: <<"apply", func>> for a custom function applied and              *)
(* <<"print", inventory>> for dump_json_inventory.                         *)

CustomModules == [m |-> {"f", "g"}]

(* custom_func(inventory)                                                  *)
custom_func(func_name, inventory) ==
    dict_set(inventory, func_name,
             [hosts |-> <<>>, vars |-> <<>>,
              children |-> DOMAIN inventory \ {"_meta"}])

(* What the first loop does with one definition: the function found, or    *)
(* the YaaniError raised for a missing key, a module that cannot be        *)
(* imported or a function the module does not have.                        *)
resolve(fdef) ==
    IF "module" \notin DOMAIN fdef THEN RaiseAbout("YaaniError", <<"module">>)
    ELSE IF "func" \notin DOMAIN fdef THEN RaiseAbout("YaaniError", <<"func">>)
    ELSE IF fdef.module \notin DOMAIN CustomModules
    THEN RaiseAbout("YaaniError", <<fdef.module>>)
    ELSE IF fdef.func \notin CustomModules[fdef.module]
    THEN RaiseAbout("YaaniError", <<fdef.func>>)
    ELSE Return(fdef.func)

(* for fdef in render_configuration: ... func_array.append(custom_func)    *)
RECURSIVE resolve_all(_, _)
resolve_all(render_configuration, func_array) ==
    IF render_configuration = <<>> THEN Return(func_array)
    ELSE IF resolve(Head(render_configuration)).err # "none"
    THEN resolve(Head(render_configuration))
    ELSE resolve_all(Tail(render_configuration),
                     Append(func_array, resolve(Head(render_configuration)).val))

(* The functions applied from the last to the first.                       *)
RECURSIVE apply_all_reversed(_, _, _)
apply_all_reversed(func_array, inventory, applied) ==
    IF func_array = <<>> THEN [inventory |-> inventory, calls |-> applied]
    ELSE apply_all_reversed(SubSeq(func_array, 1, Len(func_array) - 1),
                            custom_func(func_array[Len(func_array)], inventory),
                            Append(applied, <<"apply", func_array[Len(func_array)]>>))

(* for f in func_array: inventory = f(inventory)                           *)
RECURSIVE apply_all(_, _, _)
apply_all(func_array, inventory, applied) ==
    IF func_array = <<>> THEN [inventory |-> inventory, calls |-> applied]
    ELSE apply_all(Tail(func_array), custom_func(Head(func_array), inventory),
                   Append(applied, <<"apply", Head(func_array)>>))

(* What transform_inventory has done when it returns or raises.            *)
transformed(r, inventory) ==
    IF r.err # "none"
    THEN [err |-> r.err, val |-> r.val, inventory |-> inventory, calls |-> <<>>]
    ELSE [err |-> "none", val |-> <<>>,
          inventory |-> apply_all(r.val, inventory, <<>>).inventory,
          calls |-> Append(apply_all(r.val, inventory, <<>>).calls,
                           <<"print", apply_all(r.val, inventory, <<>>).inventory>>)]

transform_inventory(render_configuration, inventory) ==
    transformed(resolve_all(render_configuration, <<>>), inventory)

----------------------------------------------------------------------------
(* The transform hook on its own.                                          *)

MaxFuncs == 3

TransformDefs ==
    { [module |-> "m", func |-> "f"], [module |-> "m", func |-> "g"],
      [module |-> "nomod", func |-> "f"], [module |-> "m", func |-> "nofunc"],
      [module |-> "m"] }

InitTransform ==
    /\ pc = "start"
    /\ args \in [render_configuration : SeqsUpTo(TransformDefs, MaxFuncs),
                 inventory : Inventories]
    /\ ret = Return(<<>>)
    /\ loaded = <<>>
    /\ inv = args.inventory
    /\ calls = <<>>

call_transform_inventory ==
    /\ pc = "start"
    /\ \E t \in {transform_inventory(args.render_configuration, inv)} :
          /\ inv' = t.inventory
          /\ calls' = calls \o t.calls
          /\ ret' = [err |-> t.err, val |-> t.val]
    /\ pc' = "done"
    /\ UNCHANGED <<args, loaded>>

NextTransform == call_transform_inventory

SpecTransform == InitTransform /\ [][NextTransform]_vars

(* Every configured function can be resolved.                              *)
AllResolved ==
    \A i \in 1..Len(args.render_configuration) :
        LET fdef == args.render_configuration[i]
        IN  /\ DOMAIN fdef = {"module", "func"}
            /\ fdef.module = "m"
            /\ fdef.func \in {"f", "g"}

(* The inventory after the first n configured functions, each applied to   *)
(* the result of the one before.                                           *)
RECURSIVE AfterFuncs(_)
AfterFuncs(n) ==
    IF n = 0 THEN args.inventory
    ELSE custom_func(args.render_configuration[n].func, AfterFuncs(n - 1))

(* C23: transform_inventory applies the configured functions in           *)
(* configuration order, each to the result of the previous one, and prints *)
(* the final inventory exactly once after the last function; if any        *)
(* configured module or function cannot be resolved, no function is        *)
(* applied and nothing is printed.                                         *)
C23_TransformInOrder ==
    Done =>
        \A n \in {Len(args.render_configuration)} :
            IF AllResolved
            THEN /\ ret.err = "none"
                 /\ Len(calls) = n + 1
                 /\ \A i \in 1..n :
                       calls[i] = <<"apply", args.render_configuration[i].func>>
                 /\ calls[n + 1] = <<"print", AfterFuncs(n)>>
            ELSE /\ ret.err = "YaaniError"
                 /\ calls = <<>>

(* f, g, then f again: three functions applied in that order and the       *)
(* inventory printed once, with g's group showing that g was given f's     *)
(* result and f's group that the second f was given g's.                   *)
C23_Witness ==
    /\ Done
    /\ Len(calls) = 4
    /\ calls[1] = <<"apply", "f">>
    /\ calls[2] = <<"apply", "g">>
    /\ calls[3] = <<"apply", "f">>
    /\ calls[4][1] = "print"
    /\ "f" \in calls[4][2]["g"].children
    /\ "g" \notin calls[4][2]["g"].children
    /\ "g" \in calls[4][2]["f"].children
    /\ "a" \in DOMAIN args.inventory

----------------------------------------------------------------------------
(* The sections of a configuration file and their validators.              *)

(* Validator.DataSources.validate_source_args, for the three source types. *)
validate_source_args(src_type, src_args) ==
    IF src_type \in {"file", "script"}
    THEN IF /\ {"path", "content_type"} \subseteq DOMAIN src_args
            /\ src_args.content_type \in {"yaml", "json"}
         THEN Return(<<>>) ELSE Raise("YaaniError")
    ELSE IF "url" \in DOMAIN src_args THEN Return(<<>>) ELSE Raise("YaaniError")

(* Validator.DataSources.validate_configuration: the section, then the     *)
(* arguments of every source.                                              *)
validate_data_sources(configuration) ==
    IF /\ DOMAIN configuration # {}
       /\ \A n \in DOMAIN configuration :
             /\ DOMAIN configuration[n] = {"type", "args"}
             /\ configuration[n].type \in {"netbox_api", "file", "script"}
             /\ DOMAIN configuration[n].args # {}
             /\ validate_source_args(configuration[n].type,
                                     configuration[n].args).err = "none"
    THEN Return(<<>>) ELSE Raise("YaaniError")

(* Validator.DataSets.validate_configuration                               *)
validate_data_sets(configuration) ==
    IF /\ Len(configuration) >= 1
       /\ \A i \in 1..Len(configuration) :
             /\ DOMAIN configuration[i] = {"from", "args", "name"}
             /\ configuration[i].from
                    \in {"source", "merge", "decoration", "filtering"}
             /\ configuration[i].name # ""
    THEN Return(<<>>) ELSE Raise("YaaniError")

(* Validator.Render.validate_configuration                                 *)
validate_render(configuration) ==
    IF /\ "elements" \in DOMAIN configuration
       /\ DOMAIN configuration
              \subseteq {"elements", "group_vars", "group_hierarchy"}
       /\ Len(configuration.elements) >= 1
       /\ \A i \in 1..Len(configuration.elements) :
             /\ DOMAIN configuration.elements[i] = {"name", "args"}
             /\ configuration.elements[i].name # ""
             /\ "index" \in DOMAIN configuration.elements[i].args
             /\ DOMAIN configuration.elements[i].args
                    \subseteq {"pre_condition", "post_condition", "group_by",
                               "group_prefix", "index", "host_vars"}
             /\ "value" \in DOMAIN configuration.elements[i].args.index
    THEN Return(<<>>) ELSE Raise("YaaniError")

(* Validator.Transform.validate_configuration                              *)
validate_transform(configuration) ==
    IF \A i \in 1..Len(configuration) :
           DOMAIN configuration[i] = {"module", "func"}
    THEN Return(<<>>) ELSE Raise("YaaniError")

(* configuration.get("transform", [])                                      *)
get_transform(configuration) ==
    IF "transform" \in DOMAIN configuration THEN configuration.transform ELSE <<>>

(* The validation block of cli: the sections that passed, in order, and    *)
(* the error that stopped it, a missing key being raised again as a        *)
(* YaaniError.                                                             *)
validation(configuration) ==
    IF "data_sources" \notin DOMAIN configuration
    THEN [err |-> "YaaniError", passed |-> <<>>]
    ELSE IF validate_data_sources(configuration.data_sources).err # "none"
    THEN [err |-> "YaaniError", passed |-> <<>>]
    ELSE IF "data_sets" \notin DOMAIN configuration
    THEN [err |-> "YaaniError", passed |-> <<"data_sources">>]
    ELSE IF validate_data_sets(configuration.data_sets).err # "none"
    THEN [err |-> "YaaniError", passed |-> <<"data_sources">>]
    ELSE IF "render" \notin DOMAIN configuration
    THEN [err |-> "YaaniError", passed |-> <<"data_sources", "data_sets">>]
    ELSE IF validate_render(configuration.render).err # "none"
    THEN [err |-> "YaaniError", passed |-> <<"data_sources", "data_sets">>]
    ELSE IF validate_transform(get_transform(configuration)).err # "none"
    THEN [err |-> "YaaniError",
          passed |-> <<"data_sources", "data_sets", "render">>]
    ELSE [err |-> "none",
          passed |-> <<"data_sources", "data_sets", "render", "transform">>]

----------------------------------------------------------------------------
(* The sources of a run: files, by path.                                   *)

Files == [hosts |-> <<[id |-> Num(1), x |-> Str("a")],
                      [id |-> Num(2), x |-> Str("b")]>>]

(* FileSource(args): the file is loaded when the source is instantiated.   *)
instantiate_source(src_type, src_args) ==
    IF src_args.path \in DOMAIN Files
    THEN Return(Files[src_args.path]) ELSE Raise("YaaniError")

(* for src_name, src_def in self._configuration.items(): the next name.    *)
next_source(configuration, sources) ==
    CHOOSE n \in DOMAIN configuration \ DOMAIN sources : TRUE

(* SourceLoader.load_sources over a configuration of file sources: the     *)
(* sources instantiated before it returned or raised.                      *)
RECURSIVE load_sources(_, _)
load_sources(configuration, sources) ==
    IF DOMAIN configuration = DOMAIN sources
    THEN [err |-> "none", sources |-> sources]
    ELSE IF instantiate_source(
                configuration[next_source(configuration, sources)].type,
                configuration[next_source(configuration, sources)].args).err
            # "none"
    THEN [err |-> "YaaniError", sources |-> sources]
    ELSE load_sources(configuration,
             dict_set(sources, next_source(configuration, sources),
                 instantiate_source(
                     configuration[next_source(configuration, sources)].type,
                     configuration[next_source(configuration, sources)].args).val))

----------------------------------------------------------------------------
(* A run of cli, stage by stage.  ret is what ended the run: SystemExit    *)
(* with the status Utils.exit was given, or the exception that cli did not *)
(* catch.  calls records, in order, the sections validated, the sources    *)
(* instantiated, the extractions, the custom functions applied and the     *)
(* inventory printed.                                                      *)

SourceSections ==
    { <<>>,
      [src |-> [type |-> "file",
                args |-> [path |-> "hosts", content_type |-> "json"]]],
      [src |-> [type |-> "file", args |-> [path |-> "hosts"]]],
      [src |-> [type |-> "file",
                args |-> [path |-> "nofile", content_type |-> "json"]]] }

FromSource(n, src) ==
    [name |-> n, from |-> "source", args |-> [name |-> src, filter |-> ".[]"]]

DataSetSections ==
    { <<>>,
      <<[name |-> "a", from |-> "source"]>>,
      <<FromSource("a", "src")>>,
      <<FromSource("a", "nosrc")>>,
      <<FromSource("a", "src"), FromSource("a", "src")>>,
      <<FromSource("a", "src"),
        [name |-> "b", from |-> "filtering",
         args |-> [name |-> "a", filter |-> F_MAP]]>>,
      <<FromSource("a", "src"),
        [name |-> "b", from |-> "filtering",
         args |-> [name |-> "a", filter |-> F_BAD]]>>,
      <<FromSource("a", "src"),
        [name |-> "b", from |-> "filtering", args |-> [name |-> "a"]]>>,
      <<FromSource("a", "src"),
        [name |-> "b", from |-> "decoration",
         args |-> [main |-> [name |-> "a", pivot |-> Q_ITER],
                   decorators |-> <<[name |-> "a", pivot |-> Q_FIELD,
                                     anchor |-> "y"]>>]]>> }

RenderSections ==
    { [elements |-> <<>>],
      [elements |-> <<[name |-> "a", args |-> [index |-> [value |-> Q_FIELD]]]>>],
      [elements |-> <<[name |-> "a",
                       args |-> [index |-> [value |-> Q_FIELD],
                                 host_vars |-> [x |-> H_FIELD]]]>>],
      [elements |-> <<[name |-> "zz",
                       args |-> [index |-> [value |-> Q_FIELD]]]>>] }

TransformSections ==
    { <<>>,
      <<[module |-> "m", func |-> "f"]>>,
      <<[module |-> "m", func |-> "f"], [module |-> "m", func |-> "g"]>>,
      <<[module |-> "m", func |-> "f"], [module |-> "nomod", func |-> "g"]>>,
      <<[module |-> "m"]>> }

(* The parsed file: a mapping with every section, one without transform   *)
(* or one without data_sources.                                            *)
CliConfigurations ==
    [data_sources : SourceSections, data_sets : DataSetSections,
     render : RenderSections, transform : TransformSections]
    \cup [data_sources : SourceSections, data_sets : DataSetSections,
          render : RenderSections]
    \cup [data_sets : DataSetSections, render : RenderSections]

(* The configuration file is missing, is empty, so that it parses to None, *)
(* or holds a mapping.                                                     *)
InitCli ==
    /\ pc = "start"
    /\ \/ \E f \in {"missing", "empty"}, list \in BOOLEAN :
             args = [config_file |-> f, list |-> list, configuration |-> <<>>]
       \/ \E list \in BOOLEAN, configuration \in CliConfigurations :
             args = [config_file |-> "ok", list |-> list,
                     configuration |-> configuration]
    /\ ret = Return(<<>>)
    /\ loaded = <<>>
    /\ inv = <<>>
    /\ calls = <<>>

(* Utils.exit(err, code)                                                   *)
exit(code) == [err |-> "SystemExit", val |-> code]

(* Utils.load_config_file, then the first subscript of the validation      *)
(* block, which None does not support.                                     *)
load_config_file ==
    /\ pc = "start"
    /\ IF args.config_file = "missing"
       THEN ret' = exit(6) /\ pc' = "done"
       ELSE IF args.config_file = "empty"
       THEN ret' = Raise("TypeError") /\ pc' = "done"
       ELSE pc' = "validate" /\ UNCHANGED ret
    /\ UNCHANGED <<args, loaded, inv, calls>>

(* "Configuration structure validation"                                    *)
validate_configuration ==
    /\ pc = "validate"
    /\ \E v \in {validation(args.configuration)} :
          /\ calls' = calls \o [i \in 1..Len(v.passed) |-> <<"validate", v.passed[i]>>]
          /\ IF v.err = "none"
             THEN pc' = "sources" /\ UNCHANGED ret
             ELSE ret' = exit(1) /\ pc' = "done"
    /\ UNCHANGED <<args, loaded, inv>>

(* The sources of the run, once loaded.                                    *)
sources_of(configuration) == load_sources(configuration.data_sources, <<>>)

Names(d) == CHOOSE q \in [1..Cardinality(DOMAIN d) -> DOMAIN d] :
                \A i, j \in DOMAIN q : i # j => q[i] # q[j]

(* "Load data sources"                                                     *)
cli_load_sources ==
    /\ pc = "sources"
    /\ \E l \in {sources_of(args.configuration)} :
          /\ calls' = calls \o [i \in 1..Cardinality(DOMAIN l.sources) |->
                                   <<"instantiate", Names(l.sources)[i]>>]
          /\ IF l.err # "none" \/ DOMAIN l.sources = {}
             THEN ret' = exit(2) /\ pc' = "done"
             ELSE pc' = "data_sets" /\ UNCHANGED ret
    /\ UNCHANGED <<args, loaded, inv>>

(* "Load data_sets": the first loop of load_data_sets.                     *)
cli_check_definitions ==
    /\ pc = "data_sets"
    /\ IF seen_twice(args.configuration.data_sets) # {}
       THEN ret' = exit(3) /\ pc' = "done"
       ELSE pc' = "load" /\ UNCHANGED ret
    /\ UNCHANGED <<args, loaded, inv, calls>>

(* The turn has the arguments of the definition validated, and they pass.  *)
args_validated(ds_def, sources) ==
    /\ strategy_of(ds_def, sources).err = "none"
    /\ validate_data_set_args(strategy_of(ds_def, sources).val,
                              ds_def.args).err = "none"

(* One turn of the second loop.  cli catches a YaaniError and exits; any   *)
(* other exception is not caught.                                          *)
cli_create_next_set ==
    /\ pc = "load"
    /\ ds_pos <= Len(args.configuration.data_sets)
    /\ \E ds_def \in {args.configuration.data_sets[ds_pos]},
          sources \in {sources_of(args.configuration).sources} :
          /\ \E r \in create_turn(ds_def, sources, loaded) :
                IF r.err = "none"
                THEN /\ loaded' = dict_set(loaded, ds_def.name, r.val)
                     /\ UNCHANGED <<pc, ret>>
                ELSE /\ ret' = IF r.err = "YaaniError" THEN exit(3)
                               ELSE Raise(r.err)
                     /\ pc' = "done"
                     /\ UNCHANGED loaded
          /\ calls' = calls
                 \o (IF args_validated(ds_def, sources)
                     THEN <<<<"validate_data_set_args", ds_def.name>>>>
                     ELSE <<>>)
                 \o (IF extracts(ds_def, sources)
                     THEN <<<<"extract", ds_def.args.name>>>> ELSE <<>>)
    /\ UNCHANGED <<args, inv>>

(* load_data_sets returns.                                                 *)
cli_return_data_sets ==
    /\ pc = "load"
    /\ ds_pos > Len(args.configuration.data_sets)
    /\ pc' = "render"
    /\ UNCHANGED <<args, ret, loaded, inv, calls>>

(* "Render the inventory"                                                  *)
cli_render_inventory ==
    /\ pc = "render"
    /\ \E r \in {render_inventory(args.list, args.configuration.render, loaded)} :
          IF r.err = "none"
          THEN inv' = r.inventory /\ pc' = "transform" /\ UNCHANGED ret
          ELSE /\ ret' = IF r.err = "YaaniError" THEN exit(4) ELSE Raise(r.err)
               /\ pc' = "done"
               /\ UNCHANGED inv
    /\ UNCHANGED <<args, loaded, calls>>

(* "Print the JSON formatted inventory dict"                               *)
cli_transform_inventory ==
    /\ pc = "transform"
    /\ \E t \in {transform_inventory(get_transform(args.configuration), inv)} :
          /\ inv' = t.inventory
          /\ calls' = calls \o t.calls
          /\ ret' = IF t.err = "none" THEN Return(<<>>) ELSE exit(5)
    /\ pc' = "done"
    /\ UNCHANGED <<args, loaded>>

NextCli ==
    \/ load_config_file
    \/ validate_configuration
    \/ cli_load_sources
    \/ cli_check_definitions
    \/ cli_create_next_set
    \/ cli_return_data_sets
    \/ cli_render_inventory
    \/ cli_transform_inventory

SpecCli == InitCli /\ [][NextCli]_vars

----------------------------------------------------------------------------
(* Properties of a run of cli.                                             *)

CliConfig == args.configuration

Called(call) == \E i \in 1..Len(calls) : calls[i] = call

Instantiated == \E i \in 1..Len(calls) : calls[i][1] = "instantiate"

Printed == {i \in 1..Len(calls) : calls[i][1] = "print"}

Applied == {i \in 1..Len(calls) : calls[i][1] = "apply"}

(* The arguments of a definition do not have the shape its strategy        *)
(* requires, the sources being file sources.                               *)
ArgsShapeError(ds_def) ==
    /\ DOMAIN ds_def = {"from", "args", "name"}
    /\ validate_data_set_args(IF ds_def.from = "source" THEN "file_source"
                              ELSE ds_def.from, ds_def.args).err # "none"

(* C21: in a run of cli, every configuration-shape check, for the four     *)
(* sections and for the arguments of every dataset definition, has         *)
(* succeeded before any source is instantiated and before any dataset is   *)
(* created; a shape error anywhere in the configuration means that no      *)
(* dataset is created.                                                     *)
C21_ShapeCheckedBeforeComposition ==
    args.config_file = "ok" =>
        /\ (Instantiated \/ loaded # <<>>) =>
              /\ \A section \in {"data_sources", "data_sets", "render",
                                 "transform"} : Called(<<"validate", section>>)
              /\ \A p \in 1..Len(CliConfig.data_sets) :
                    Called(<<"validate_data_set_args",
                             CliConfig.data_sets[p].name>>)
        /\ (\/ validation(CliConfig).err # "none"
            \/ \E p \in 1..Len(CliConfig.data_sets) :
                  ArgsShapeError(CliConfig.data_sets[p]))
              => loaded = <<>>

(* The stage of the run that fails, by the status cli gives it: 6 for the  *)
(* configuration load, 1 for the configuration shape, 2 for the sources, 3 *)
(* for the datasets, 4 for the rendering, 5 for the transform; 0 when none *)
(* fails.  Read when the run has ended: the datasets then are all created  *)
(* unless their loading failed.                                            *)
FailedStage ==
    IF args.config_file # "ok" THEN 6
    ELSE IF validation(CliConfig).err # "none" THEN 1
    ELSE IF sources_of(CliConfig).err # "none" THEN 2
    ELSE IF Cardinality(DOMAIN loaded) < Len(CliConfig.data_sets) THEN 3
    ELSE IF render_inventory(args.list, CliConfig.render, loaded).err # "none"
    THEN 4
    ELSE IF transform_inventory(get_transform(CliConfig),
                render_inventory(args.list, CliConfig.render,
                                 loaded).inventory).err # "none"
    THEN 5
    ELSE 0

(* No stage after the one that failed has run.                             *)
NothingAfter(stage) ==
    /\ stage \in {6, 1} => ~Instantiated
    /\ stage \in {6, 1, 2} =>
          loaded = <<>> /\ \A i \in 1..Len(calls) : calls[i][1] # "extract"
    /\ stage \in {6, 1, 2, 3} => inv = <<>>
    /\ Applied = {}

(* C22: cli maps a failure to a distinct exit status per kind of failure   *)
(* (configuration load 6, configuration shape 1, source loading 2, dataset *)
(* loading 3, rendering 4, transform 5); after the first failure no later  *)
(* stage runs and no inventory is printed.                                 *)
C22_ExitStatusPerStage ==
    Done =>
        IF FailedStage = 0
        THEN ret.err = "none" /\ Cardinality(Printed) = 1
        ELSE /\ ret.err = "SystemExit"
             /\ ret.val = FailedStage
             /\ NothingAfter(FailedStage)
             /\ Printed = {}

----------------------------------------------------------------------------
(* The datasets by reference.                                              *)
(*                                                                         *)
(* A record of a dataset is a dict object and a dataset a list of          *)
(* references to such objects.  Here loaded holds the objects alive, by    *)
(* identity, the datasets as lists of identities, and the identities of    *)
(* the build namespaces; an engine is given the objects and says which     *)
(* objects it leaves and which of them make the dataset it hands back.     *)

(* The records behind a list of references.                                *)
deref(objects, ids) == [i \in 1..Len(ids) |-> objects[ids[i]]]

(* The datasets as the engines read them.                                  *)
by_value(objects, sets) == [n \in DOMAIN sets |-> deref(objects, sets[n])]

(* An engine stopped by the exception e: nothing is handed back.           *)
Stopped(e, objects) == [err |-> e, objects |-> objects, lst |-> <<>>]

(* decorate_element writing in the element it is given.                    *)
decorate_element_at_main(objects, elt, data) ==
    [objects |-> [objects EXCEPT ![elt] = decorate_element(@, data)],
     elt |-> elt]

(* decorate_element: new_elt = {} is a new object, which receives the      *)
(* fields of elt, then the anchors, and is returned.                       *)
decorate_element_at(objects, elt, data) ==
    [objects |-> Append(objects, decorate_element(objects[elt], data)),
     elt |-> Len(objects) + 1]

(* for elt in elt_list: r_lst.append(decorate_element(elt, sublst))        *)
RECURSIVE decorate_refs_at(_, _, _, _)
decorate_refs_at(left, main_ids, refs, sublst) ==
    IF refs = <<>> THEN left
    ELSE decorate_refs_at(
             [err |-> "none",
              objects |-> decorate_element_at(left.objects, main_ids[Head(refs)],
                                              sublst).objects,
              lst |-> Append(left.lst,
                             decorate_element_at(left.objects, main_ids[Head(refs)],
                                                 sublst).elt)],
             main_ids, Tail(refs), sublst)

(* The loop of decorate_dataset over idx_main_set.items().                 *)
RECURSIVE decorate_loop_at(_, _, _, _, _)
decorate_loop_at(left, idx_main_set, main_ids, idx_add_set_lst, e) ==
    IF e > Len(idx_main_set) THEN left
    ELSE decorate_loop_at(
             decorate_refs_at(left, main_ids, idx_main_set[e].refs,
                              sublst_of(idx_add_set_lst, idx_main_set[e].key)),
             idx_main_set, main_ids, idx_add_set_lst, e + 1)

(* decorate_dataset on the objects: the indexes are computed as            *)
(* decorate_dataset computes them, the elements are the objects of the     *)
(* main set.                                                               *)
decorate_dataset_at(objects, sets, config) ==
    IF decorate_dataset(config, by_value(objects, sets)).err # "none"
    THEN Stopped(decorate_dataset(config, by_value(objects, sets)).err, objects)
    ELSE decorate_loop_at(
             [err |-> "none", objects |-> objects, lst |-> <<>>],
             map_elt_to_value(config.main.pivot,
                              deref(objects, sets[config.main.name]),
                              ~exclusive_of(config)).val,
             sets[config.main.name],
             index_decorators(config.decorators, by_value(objects, sets),
                              1, <<>>).val,
             1)

(* setcntnt.get(cmptd, {}): the object of the set at the key, 0 standing   *)
(* for the new {} of the default.                                          *)
get_elt_at(indxd, ids, cmptd) ==
    IF dict_has(indxd.idx, cmptd)
    THEN ids[indxd.idx[dict_pos(indxd.idx, cmptd)].refs[1]]
    ELSE 0

(* merge_elts: elts is the list the caller has just built; reversing it    *)
(* touches no dataset.  new_elt = {} is a new object, which receives the   *)
(* fields of the elements and is returned.                                 *)
merge_elts_at(objects, elts) ==
    [objects |-> Append(objects,
                     merge_elts([i \in 1..Len(elts) |->
                                    IF elts[i] = 0 THEN EmptyRecord
                                    ELSE objects[elts[i]]])),
     elt |-> Len(objects) + 1]

(* One turn of the loop of merge_sets: r is merged, receives the priority  *)
(* keys and is appended, unless it is empty.                               *)
merge_turn_at(left, m, indxd_lst, keys, cmptd) ==
    IF m.objects[m.elt] = EmptyRecord THEN left
    ELSE [err |-> "none",
          objects |-> [m.objects EXCEPT
                          ![m.elt] = apply_priorities(@, keys, indxd_lst, cmptd)],
          lst |-> Append(left.lst, m.elt)]

RECURSIVE merge_loop_at(_, _, _, _, _)
merge_loop_at(left, indxd_lst, ids_lst, keys, idxs) ==
    IF idxs = <<>> THEN left
    ELSE merge_loop_at(
             merge_turn_at(left,
                 merge_elts_at(left.objects,
                     [i \in 1..Len(indxd_lst) |->
                         get_elt_at(indxd_lst[i], ids_lst[i], Head(idxs))]),
                 indxd_lst, keys, Head(idxs)),
             indxd_lst, ids_lst, keys, Tail(idxs))

(* merge_sets on the objects: one outcome for each order of the keys.      *)
merge_sets_at(objects, sets, set_lst, keys) ==
    LET indxd == index_sets([i \in 1..Len(set_lst) |->
                                [name |-> set_lst[i].name,
                                 pivot |-> set_lst[i].pivot,
                                 data_set |-> deref(objects, sets[set_lst[i].name])]],
                            1, <<>>)
    IN  IF indxd.err # "none" THEN {Stopped(indxd.err, objects)}
        ELSE {merge_loop_at([err |-> "none", objects |-> objects, lst |-> <<>>],
                            indxd.val,
                            [i \in 1..Len(set_lst) |-> sets[set_lst[i].name]],
                            keys, idxs) :
                 idxs \in Orderings(all_idxs(indxd.val))}

(* create_dataset_from_filtering on the objects: what pyjq hands back is   *)
(* made of new objects.                                                    *)
filtering_at(objects, sets, ds_args) ==
    \* the dataset is the list pyjq.first built
    IF as_data_set(create_dataset_from_filtering(
                       ds_args, by_value(objects, sets))).err # "none"
    THEN Stopped("YaaniError", objects)
    ELSE [err |-> "none",
          objects |-> objects \o as_data_set(create_dataset_from_filtering(
                                      ds_args, by_value(objects, sets))).val,
          lst |-> [i \in 1..Len(as_data_set(create_dataset_from_filtering(
                                    ds_args, by_value(objects, sets))).val) |->
                      Len(objects) + i]]

(* tmp_dct[uid][1].update(rndrd), for the pairs in order: the second       *)
(* member of a pair is its build namespace.                                *)
RECURSIVE host_vars_at(_, _, _)
host_vars_at(objects, config, pairs) ==
    IF pairs = <<>> THEN objects
    ELSE host_vars_at(
             [objects EXCEPT ![Head(pairs)[2]] =
                 update(@, rendered(config, objects[Head(pairs)[1]])[1])],
             config, Tail(pairs))

(* render_host_vars on the objects; it hands back the pairs it was given.  *)
render_host_vars_at(objects, config, pairs) ==
    IF render_host_vars(config,
           [i \in 1..Len(pairs) |->
               <<objects[pairs[i][1]], objects[pairs[i][2]], i>>]).err # "none"
    THEN Stopped("YaaniError", objects)
    ELSE [err |-> "none", objects |-> host_vars_at(objects, config, pairs),
          lst |-> pairs]

----------------------------------------------------------------------------
(* The engines at work on shared objects: the datasets "a" and "b" come    *)
(* from a source; "m" is merged, "d" decorated and "f" filtered from the   *)
(* datasets there are, each engine being called once, in any order, and    *)
(* the host vars of any dataset are rendered, once.                        *)

MaxFrameElts == 2

FrameElts ==
    { [id |-> Num(1), x |-> Str("a")],
      [id |-> Num(2), x |-> Str("b")],
      [id |-> Num(2), x |-> Str("a"), y |-> Str("c")] }

InitFrame ==
    /\ pc = "start"
    /\ args = <<>>
    /\ ret = Return(<<>>)
    /\ \E objects \in [1..MaxFrameElts + 1 -> FrameElts] :
          loaded = [objects |-> objects,
                    sets |-> [a |-> [i \in 1..MaxFrameElts |-> i],
                              b |-> <<MaxFrameElts + 1>>],
                    builds |-> {}]
    /\ inv = <<>>
    /\ calls = <<>>

(* data_sets[ds_name] = data_set, when the engine has handed one back.     *)
stored(ds_name, left) ==
    [objects |-> left.objects,
     sets |-> IF left.err = "none" THEN dict_set(loaded.sets, ds_name, left.lst)
              ELSE loaded.sets,
     builds |-> loaded.builds]

(* The engine has been called in this run.                                 *)
Tried(engine) == \E i \in 1..Len(calls) : calls[i][1] = engine

frame_merge ==
    /\ ~Tried("merge")
    /\ \E s \in DOMAIN loaded.sets \ {"a"}, keys \in {<<>>, [x |-> "a"]} :
          /\ \E left \in merge_sets_at(loaded.objects, loaded.sets,
                            <<[name |-> s, pivot |-> Q_FIELD],
                              [name |-> "a", pivot |-> Q_FIELD]>>, keys) :
                /\ loaded' = stored("m", left)
                /\ ret' = [err |-> left.err, val |-> left.lst]
          /\ calls' = Append(calls, <<"merge", s, "a">>)
    /\ UNCHANGED <<pc, args, inv>>

frame_decorate ==
    /\ ~Tried("decorate")
    /\ \E s \in DOMAIN loaded.sets, anchor \in {"x", "z"} :
          /\ \E left \in {decorate_dataset_at(loaded.objects, loaded.sets,
                             [main |-> [name |-> s, pivot |-> Q_FIELD,
                                        exclusive |-> FALSE],
                              decorators |-> <<[name |-> "b", pivot |-> Q_FIELD,
                                                anchor |-> anchor]>>])} :
                /\ loaded' = stored("d", left)
                /\ ret' = [err |-> left.err, val |-> left.lst]
          /\ calls' = Append(calls, <<"decorate", s, "b">>)
    /\ UNCHANGED <<pc, args, inv>>

frame_filter ==
    /\ ~Tried("filter")
    /\ \E s \in DOMAIN loaded.sets :
          /\ \E left \in {filtering_at(loaded.objects, loaded.sets,
                                       [name |-> s, filter |-> F_MAP])} :
                /\ loaded' = stored("f", left)
                /\ ret' = [err |-> left.err, val |-> left.lst]
          /\ calls' = Append(calls, <<"filter", s>>)
    /\ UNCHANGED <<pc, args, inv>>

(* render_group makes the pairs, cntnt = [(elt, {}) for elt in ds_content], *)
(* and has their host vars rendered.                                       *)
frame_render_host_vars ==
    /\ pc = "start"
    /\ \E s \in DOMAIN loaded.sets, config \in {<<>>, [x |-> H_FIELD, y |-> H_MISSING]} :
          /\ \E n \in {Len(loaded.objects)} :
             \E left \in {render_host_vars_at(
                             loaded.objects
                                 \o [i \in 1..Len(loaded.sets[s]) |-> EmptyRecord],
                             config,
                             [i \in 1..Len(loaded.sets[s]) |->
                                 <<loaded.sets[s][i], n + i>>])} :
                /\ loaded' = [objects |-> left.objects, sets |-> loaded.sets,
                              builds |-> n + 1..n + Len(loaded.sets[s])]
                /\ ret' = [err |-> left.err, val |-> left.lst]
          /\ calls' = Append(calls, <<"render_host_vars", s>>)
    /\ pc' = "rendered"
    /\ UNCHANGED <<args, inv>>

NextFrame ==
    \/ frame_merge
    \/ frame_decorate
    \/ frame_filter
    \/ frame_render_host_vars

SpecFrame == InitFrame /\ [][NextFrame]_vars

(* The objects of the datasets there are.                                  *)
DatasetObjects ==
    UNION {{loaded.sets[n][i] : i \in 1..Len(loaded.sets[n])} :
              n \in DOMAIN loaded.sets}

(* C25: creating a dataset by merge, decoration or filtering leaves every *)
(* previously created dataset unchanged (the same records in the same      *)
(* order, each with the same fields and values), and rendering an element  *)
(* leaves every import record of its dataset unchanged; only build         *)
(* namespaces and the inventory are written.                               *)
C25_EarlierDatasetsKept ==
    [][/\ \A n \in DOMAIN loaded.sets :
             /\ n \in DOMAIN loaded'.sets
             /\ loaded'.sets[n] = loaded.sets[n]
       /\ \A o \in DatasetObjects : loaded'.objects[o] = loaded.objects[o]
       /\ \A o \in 1..Len(loaded.objects) :
             loaded'.objects[o] # loaded.objects[o] => o \in loaded'.builds]_vars

(* The three engines have each made a dataset that is not empty, the       *)
(* decoration from the merged dataset and with an anchor that replaces a   *)
(* field of the main record in the decorated one, and host vars have been  *)
(* rendered into build namespaces.                                         *)
C25_Witness ==
    /\ {"m", "d", "f"} \subseteq DOMAIN loaded.sets
    /\ loaded.sets.m # <<>> /\ loaded.sets.f # <<>>
    /\ Called(<<"decorate", "m", "b">>)
    /\ \E i \in 1..Len(loaded.sets.d) :
          Get(loaded.objects[loaded.sets.d[i]], "x").t = "list"
    /\ pc = "rendered"
    /\ \E o \in loaded.builds : loaded.objects[o] # EmptyRecord

====
